---- MODULE Spec2Model ----
(***************************************************************************)
(* A model of the RTMP ingest session of streamX: the server-side          *)
(* handshake (src/rtmp/handshake.rs), the per-connection read loop and its *)
(* command dispatch (src/rtmp/mod.rs) and the chunk-header / AMF0 codec     *)
(* (src/rtmp/protocol.rs).                                                 *)
(*                                                                         *)
(* Bytes are naturals in 0..255 and a byte string is a sequence of bytes.  *)
(* The peer (an RTMP client) is the environment: it appends bytes to the   *)
(* socket (net_in) and may close it.  Socket writes of the server are       *)
(* assumed to succeed (the peer keeps its receiving side open), so every   *)
(* `write_all(..).await?` appends one entry to `out`.                       *)
(***************************************************************************)
EXTENDS Integers, Sequences, FiniteSets, TLC

VARIABLES
    pc,          \* position of the task running handle_rtmp_connection
    cstage,      \* position of the peer: "C0","C1","C2","chunks","closed"
    csize,       \* the chunk size the peer fragments its messages with
    sent,        \* the chunk-stream messages the peer has sent, in order
    net_in,      \* bytes sent by the peer and not yet read by the server
    hs_io,       \* the handshake's I/O steps so far, <<op, byte count>>
    c0,          \* perform_handshake's array c0 (empty until it is read)
    c1,          \* perform_handshake's array c1 (empty until it is read)
    out,         \* every buffer handed to socket.write_all, in order
    ctl_at,      \* Len(out) when send_initial_control_messages was entered
    buffer,      \* buffer[0..buffer_pos) of the read loop
    buffer_pos,  \* buffer_pos of the read loop
    partials,    \* number of short reads so far (bounded by MaxPartial)
    handled,     \* log of the messages the loop has dispatched
    scenario,    \* which menu of messages the peer draws from
    tasks,       \* the connection tasks spawned by RtmpServer::start
    hs_sent,     \* the handshake blocks the peer has sent (C0, C1, C2), in order
    timeouts,    \* how often the read of the loop has timed out
    input,       \* the byte slice a decoder of protocol.rs is called with
    output,      \* what the decoder returned for it (empty until it is called)
    playlist_file,    \* the lines of playlist.m3u8 the segmenter has written
    playlist_manager  \* the PlaylistManager of the stream

vars == <<pc, cstage, csize, sent, net_in, hs_io, c0, c1, out, ctl_at,
          buffer, buffer_pos, partials, handled, scenario, tasks, hs_sent, timeouts,
          input, output, playlist_file, playlist_manager>>

\* the variables no step of an RTMP connection touches
unitvars == <<input, output, playlist_file, playlist_manager>>

(***************************************************************************)
(* Bounds of the model.                                                    *)
(***************************************************************************)
MaxMsgs == 2        \* chunk-stream messages the peer sends per connection
MaxPartial == 1     \* short reads (fewer bytes than are queued) per connection
MaxSeed == 1        \* C1 fillings the peer chooses from: 0..MaxSeed
MaxTimeouts == 1    \* read timeouts counted per connection

(***************************************************************************)
(* Program constants.                                                      *)
(***************************************************************************)
HANDSHAKE_SIZE == 1536
RTMP_VERSION == 3
BUFFER_SIZE == 4096
MAX_MESSAGES_PER_READ == 10
WINDOW_ACK_SIZE == 5000000
PEER_BANDWIDTH == 5000000
OUT_CHUNK_SIZE == 4096

(***************************************************************************)
(* Byte-string helpers.                                                    *)
(***************************************************************************)
Byte == 0..255

\* payload[a..b) of Rust, 0-based and half-open, as a sequence
Slice(s, a, b) == SubSeq(s, a + 1, b)

\* s[i] of Rust, 0-based
At(s, i) == s[i + 1]

\* u16::to_be_bytes of a value already cast `as u16`
U16Be(n) == << (n % 65536) \div 256, n % 256 >>

\* u16::from_be_bytes
U16FromBe(hi, lo) == hi * 256 + lo

\* u32::to_be_bytes for values below 2^31
U32Be(n) == << (n \div 16777216) % 256, (n \div 65536) % 256, (n \div 256) % 256, n % 256 >>

\* u32::from_be_bytes([0, a, b, c]): a 24-bit big-endian field
U24FromBe(a, b, c) == a * 65536 + b * 256 + c

\* (len as u32).to_be_bytes()[1..]: the low 24 bits, big-endian
U24Be(n) == << (n \div 65536) % 256, (n \div 256) % 256, n % 256 >>

RECURSIVE Pow2(_)
Pow2(e) == IF e = 0 THEN 1 ELSE 2 * Pow2(e - 1)

RECURSIVE Log2Floor(_)
Log2Floor(n) == IF n <= 1 THEN 0 ELSE 1 + Log2Floor(n \div 2)

\* f64::to_be_bytes of a non-negative integer below 2^20: sign 0, biased
\* exponent 1023 + e, and the fraction's top 20 bits; the low 32 bits are 0.
F64Be(n) ==
    IF n = 0 THEN <<0, 0, 0, 0, 0, 0, 0, 0>>
    ELSE LET e == Log2Floor(n)
             hi == (1023 + e) * 1048576 + (n - Pow2(e)) * Pow2(20 - e)
         IN  U32Be(hi) \o <<0, 0, 0, 0>>

(***************************************************************************)
(* str.as_bytes() for the ASCII literals of the source.                    *)
(***************************************************************************)
AsciiPrintable ==
    " !" \o "#$%&'" \o "(" \o ")" \o "*" \o "+,-./0123456789:;<=>?@" \o
    "ABCDEFGHIJKLMNOPQRSTUVWXYZ[" \o "]^_" \o "abcdefghijklmnopqrstuvwxyz{|}~"

\* code points of AsciiPrintable, in order: 32, 33, 35..91, 93..95, 97..126
AsciiCodes ==
    <<32, 33>> \o [i \in 1..57 |-> 34 + i] \o <<93, 94, 95>> \o [i \in 1..30 |-> 96 + i]

AsciiCode ==
    [c \in {SubSeq(AsciiPrintable, i, i) : i \in 1..Len(AsciiPrintable)} |->
        AsciiCodes[CHOOSE i \in 1..Len(AsciiPrintable) : SubSeq(AsciiPrintable, i, i) = c]]

Bytes(s) == [i \in 1..Len(s) |-> AsciiCode[SubSeq(s, i, i)]]

IsCont(x) == x >= 128 /\ x <= 191

REPLACEMENT == <<239, 191, 189>>    \* U+FFFD in UTF-8

\* the lead byte x of a UTF-8 sequence: the sequence's length, 0 for a byte
\* that starts none
Utf8Width(x) ==
    IF x < 128 THEN 1
    ELSE IF x >= 194 /\ x <= 223 THEN 2
    ELSE IF x >= 224 /\ x <= 239 THEN 3
    ELSE IF x >= 240 /\ x <= 244 THEN 4
    ELSE 0

\* whether y may follow the lead byte x as the sequence's second byte
Utf8Second(x, y) ==
    y >= (IF x = 224 THEN 160 ELSE IF x = 240 THEN 144 ELSE 128)
    /\ y <= (IF x = 237 THEN 159 ELSE IF x = 244 THEN 143 ELSE 191)

\* the number of bytes of b from position i that continue the sequence its
\* lead byte b[i] starts (at most Utf8Width - 1)
Utf8Follow(b, i) ==
    LET w == Utf8Width(b[i]) IN
    IF w < 2 \/ i + 1 > Len(b) THEN 0
    ELSE IF ~Utf8Second(b[i], b[i + 1]) THEN 0
    ELSE IF w < 3 \/ i + 2 > Len(b) THEN 1
    ELSE IF ~IsCont(b[i + 2]) THEN 1
    ELSE IF w < 4 \/ i + 3 > Len(b) THEN 2
    ELSE IF ~IsCont(b[i + 3]) THEN 2
    ELSE 3

\* whether a sequence starts at position i of b: i is not among the bytes
\* that continue the sequence of a lead byte up to three positions before it
\* (a lead byte continues no sequence, so the sequences' starts are local)
Utf8Starts(b, i) ==
    \A p \in (i - 3)..(i - 1) : p >= 1 => p + Utf8Follow(b, p) < i

\* what position i of b contributes: its sequence when that is complete,
\* U+FFFD when it is not, nothing when i continues an earlier sequence
Utf8Unit(b, i) ==
    IF ~Utf8Starts(b, i) THEN << >>
    ELSE IF Utf8Width(b[i]) = 1 + Utf8Follow(b, i) THEN SubSeq(b, i, i + Utf8Follow(b, i))
    ELSE REPLACEMENT

\* String::from_utf8_lossy(b).to_string().into_bytes(): valid UTF-8 is kept,
\* every maximal invalid part is replaced by U+FFFD.  Positions lo..hi of b,
\* halved so that long strings do not nest deeply.
RECURSIVE Utf8LossyFrom(_, _, _)
Utf8LossyFrom(b, lo, hi) ==
    IF lo > hi THEN << >>
    ELSE IF lo = hi THEN Utf8Unit(b, lo)
    ELSE Utf8LossyFrom(b, lo, (lo + hi) \div 2)
         \o Utf8LossyFrom(b, (lo + hi) \div 2 + 1, hi)

\* from_utf8_lossy borrows its input when that is valid UTF-8, as ASCII is
Utf8Lossy(b) ==
    IF \A i \in DOMAIN b : b[i] < 128 THEN b ELSE Utf8LossyFrom(b, 1, Len(b))

(***************************************************************************)
(* protocol.rs: MessageType::from and RtmpHeader::parse.                   *)
(***************************************************************************)
MessageTypeFrom(value) ==
    CASE value = 1 -> "SetChunkSize"
      [] value = 2 -> "Abort"
      [] value = 3 -> "Acknowledgement"
      [] value = 5 -> "WindowAcknowledgementSize"
      [] value = 6 -> "SetPeerBandwidth"
      [] value = 8 -> "Audio"
      [] value = 9 -> "Video"
      [] value = 20 -> "Command"
      [] value = 17 -> "Command"
      [] OTHER -> "Unknown"

NoHeader == [ok |-> FALSE]

\* match format { 0 => 11, 1 => 7, 2 => 3, 3 => 0 }
MessageHeaderSize(format) ==
    CASE format = 0 -> 11 [] format = 1 -> 7 [] format = 2 -> 3 [] OTHER -> 0

\* a variant that reads the two-byte chunk stream id most significant byte first
RtmpHeaderParse_BigEndian(data) ==
    IF Len(data) = 0 THEN NoHeader
    ELSE LET first_byte == At(data, 0)
             format == (first_byte \div 64) % 4
             low == first_byte % 64
         IN  IF low = 0 /\ Len(data) < 2 THEN NoHeader
             ELSE IF low = 1 /\ Len(data) < 3 THEN NoHeader
             ELSE LET chunk_stream_id ==
                          IF low = 0 THEN At(data, 1) + 64
                          ELSE IF low = 1 THEN At(data, 1) * 256 + At(data, 2) + 64
                          ELSE low
                      offset == IF low = 0 THEN 2 ELSE IF low = 1 THEN 3 ELSE 1
                      header_size == MessageHeaderSize(format)
                  IN  IF Len(data) < offset + header_size THEN NoHeader
                      ELSE [ok |-> TRUE,
                            format |-> format,
                            chunk_stream_id |-> chunk_stream_id,
                            timestamp |->
                                IF format \in {0, 1, 2}
                                THEN U24FromBe(At(data, offset), At(data, offset + 1), At(data, offset + 2))
                                ELSE 0,
                            message_length |->
                                IF format \in {0, 1}
                                THEN U24FromBe(At(data, offset + 3), At(data, offset + 4), At(data, offset + 5))
                                ELSE 0,
                            message_type_id |->
                                IF format \in {0, 1} THEN At(data, offset + 6) ELSE 0,
                            message_stream_id |->
                                IF format = 0 THEN Slice(data, offset + 7, offset + 11)
                                ELSE <<0, 0, 0, 0>>,
                            header_size |-> offset + header_size]

\* a variant that returns the size of the message header without the basic header
RtmpHeaderParse_FieldsOnly(data) ==
    IF Len(data) = 0 THEN NoHeader
    ELSE LET first_byte == At(data, 0)
             format == (first_byte \div 64) % 4
             low == first_byte % 64
         IN  IF low = 0 /\ Len(data) < 2 THEN NoHeader
             ELSE IF low = 1 /\ Len(data) < 3 THEN NoHeader
             ELSE LET chunk_stream_id ==
                          IF low = 0 THEN At(data, 1) + 64
                          ELSE IF low = 1 THEN At(data, 2) * 256 + At(data, 1) + 64
                          ELSE low
                      offset == IF low = 0 THEN 2 ELSE IF low = 1 THEN 3 ELSE 1
                      header_size == MessageHeaderSize(format)
                  IN  IF Len(data) < offset + header_size THEN NoHeader
                      ELSE [ok |-> TRUE,
                            format |-> format,
                            chunk_stream_id |-> chunk_stream_id,
                            timestamp |->
                                IF format \in {0, 1, 2}
                                THEN U24FromBe(At(data, offset), At(data, offset + 1), At(data, offset + 2))
                                ELSE 0,
                            message_length |->
                                IF format \in {0, 1}
                                THEN U24FromBe(At(data, offset + 3), At(data, offset + 4), At(data, offset + 5))
                                ELSE 0,
                            message_type_id |->
                                IF format \in {0, 1} THEN At(data, offset + 6) ELSE 0,
                            message_stream_id |->
                                IF format = 0 THEN Slice(data, offset + 7, offset + 11)
                                ELSE <<0, 0, 0, 0>>,
                            header_size |-> header_size]

\* RtmpHeader::parse(data): NoHeader for None, else the header's fields and
\* header_size, the number of bytes the header occupies.  message_stream_id is
\* kept as its four little-endian bytes.
RtmpHeaderParse(data) ==
    IF Len(data) = 0 THEN NoHeader
    ELSE LET first_byte == At(data, 0)
             format == (first_byte \div 64) % 4
             low == first_byte % 64
         IN  IF low = 0 /\ Len(data) < 2 THEN NoHeader
             ELSE IF low = 1 /\ Len(data) < 3 THEN NoHeader
             ELSE LET chunk_stream_id ==
                          IF low = 0 THEN At(data, 1) + 64
                          ELSE IF low = 1 THEN At(data, 2) * 256 + At(data, 1) + 64
                          ELSE low
                      offset == IF low = 0 THEN 2 ELSE IF low = 1 THEN 3 ELSE 1
                      header_size == MessageHeaderSize(format)
                  IN  IF Len(data) < offset + header_size THEN NoHeader
                      ELSE [ok |-> TRUE,
                            format |-> format,
                            chunk_stream_id |-> chunk_stream_id,
                            timestamp |->
                                IF format \in {0, 1, 2}
                                THEN U24FromBe(At(data, offset), At(data, offset + 1), At(data, offset + 2))
                                ELSE 0,
                            message_length |->
                                IF format \in {0, 1}
                                THEN U24FromBe(At(data, offset + 3), At(data, offset + 4), At(data, offset + 5))
                                ELSE 0,
                            message_type_id |->
                                IF format \in {0, 1} THEN At(data, offset + 6) ELSE 0,
                            message_stream_id |->
                                IF format = 0 THEN Slice(data, offset + 7, offset + 11)
                                ELSE <<0, 0, 0, 0>>,
                            header_size |-> offset + header_size]

(***************************************************************************)
(* protocol.rs: the command decoders.  Each returns [ok |-> FALSE] for     *)
(* None.  An f64 is held as its IEEE-754 bit pattern, eight big-endian      *)
(* bytes: f64::from_be_bytes and f64::to_be_bytes reinterpret those bits.  *)
(***************************************************************************)
None == [ok |-> FALSE]

\* The leading AMF0 string of a command payload, as the three decoders that
\* share this prefix read it (protocol.rs 149-171, 262-283, 333-354):
\* [ok, name, offset], offset being the position after the name.
CommandNamePrefix(payload) ==
    IF Len(payload) < 10 THEN None
    ELSE IF At(payload, 0) # 2 THEN None
    ELSE LET str_len == U16FromBe(At(payload, 1), At(payload, 2))
         IN  IF 3 + str_len > Len(payload) THEN None
             ELSE [ok |-> TRUE,
                   name |-> Utf8Lossy(Slice(payload, 3, 3 + str_len)),
                   offset |-> 3 + str_len]

\* the `while offset < payload.len()` loop of parse_rtmp_connect; cmd holds
\* app, flash_ver and tc_url
RECURSIVE ConnectProperties(_, _, _)
ConnectProperties(payload, offset, cmd) ==
    LET len == Len(payload) IN
    IF ~(offset < len) THEN cmd
    ELSE IF offset + 3 <= len /\ At(payload, offset) = 0 /\ At(payload, offset + 1) = 0
            /\ At(payload, offset + 2) = 9 THEN cmd
    ELSE IF offset + 2 > len THEN cmd
    ELSE LET prop_name_len == U16FromBe(At(payload, offset), At(payload, offset + 1))
             o1 == offset + 2
         IN  IF o1 + prop_name_len > len THEN cmd
             ELSE LET prop_name == Utf8Lossy(Slice(payload, o1, o1 + prop_name_len))
                      o2 == o1 + prop_name_len
                  IN  IF o2 >= len THEN cmd
                      ELSE LET value_type == At(payload, o2)
                               o3 == o2 + 1
                           IN  CASE value_type = 2 ->
                                      IF o3 + 2 > len THEN cmd
                                      ELSE LET value_len == U16FromBe(At(payload, o3), At(payload, o3 + 1))
                                               o4 == o3 + 2
                                           IN  IF o4 + value_len > len THEN cmd
                                               ELSE LET value == Utf8Lossy(Slice(payload, o4, o4 + value_len))
                                                        next ==
                                                            CASE prop_name = Bytes("app") -> [cmd EXCEPT !.app = value]
                                                              [] prop_name = Bytes("flashVer") -> [cmd EXCEPT !.flash_ver = value]
                                                              [] prop_name = Bytes("tcUrl") -> [cmd EXCEPT !.tc_url = value]
                                                              [] OTHER -> cmd
                                                    IN  ConnectProperties(payload, o4 + value_len, next)
                                 [] value_type = 0 -> ConnectProperties(payload, o3 + 8, cmd)
                                 [] value_type = 1 -> ConnectProperties(payload, o3 + 1, cmd)
                                 [] OTHER -> cmd

parse_rtmp_connect(payload) ==
    LET pre == CommandNamePrefix(payload) IN
    IF ~pre.ok THEN None
    ELSE IF pre.name # Bytes("connect") THEN None
    ELSE IF Len(payload) < pre.offset + 9 THEN None
    ELSE LET offset == pre.offset + 9 IN
         IF Len(payload) < offset + 1 \/ At(payload, offset) # 3 THEN None
         ELSE ConnectProperties(payload, offset + 1,
                  [ok |-> TRUE, app |-> <<>>, flash_ver |-> <<>>, tc_url |-> <<>>])

parse_rtmp_publish(payload) ==
    LET pre == CommandNamePrefix(payload) IN
    IF ~pre.ok THEN None
    ELSE IF pre.name # Bytes("publish") THEN None
    ELSE IF Len(payload) < pre.offset + 9 THEN None
    ELSE LET o1 == pre.offset + 9 IN
         IF Len(payload) < o1 + 1 \/ At(payload, o1) # 5 THEN None
         ELSE LET o2 == o1 + 1 IN
              IF Len(payload) < o2 + 3 \/ At(payload, o2) # 2 THEN None
              ELSE LET stream_key_len == U16FromBe(At(payload, o2 + 1), At(payload, o2 + 2))
                       o3 == o2 + 3
                   IN  IF o3 + stream_key_len > Len(payload) THEN None
                       ELSE LET o4 == o3 + stream_key_len
                                type_len == U16FromBe(At(payload, o4 + 1), At(payload, o4 + 2))
                            IN  [ok |-> TRUE,
                                 stream_key |-> Utf8Lossy(Slice(payload, o3, o4)),
                                 publish_type |->
                                     IF o4 + 3 <= Len(payload) /\ At(payload, o4) = 2
                                        /\ o4 + 3 + type_len <= Len(payload)
                                     THEN Utf8Lossy(Slice(payload, o4 + 3, o4 + 3 + type_len))
                                     ELSE Bytes("live")]

parse_rtmp_createstream(payload) ==
    LET pre == CommandNamePrefix(payload) IN
    IF ~pre.ok THEN None
    ELSE IF pre.name # Bytes("createStream") THEN None
    ELSE IF Len(payload) < pre.offset + 9 THEN None
    ELSE IF At(payload, pre.offset) # 0 THEN None
    ELSE [ok |-> TRUE, transaction_id |-> Slice(payload, pre.offset + 1, pre.offset + 9)]

parse_command_name(payload) ==
    IF Len(payload) < 5 THEN None
    ELSE IF At(payload, 0) # 2 THEN None
    ELSE LET str_len == U16FromBe(At(payload, 1), At(payload, 2))
         IN  IF Len(payload) < 3 + str_len THEN None
             ELSE [ok |-> TRUE, name |-> Utf8Lossy(Slice(payload, 3, 3 + str_len))]

parse_checkbw_command(payload) ==
    IF Len(payload) < 20 THEN None
    ELSE IF At(payload, 0) # 2 THEN None
    ELSE LET str_len == U16FromBe(At(payload, 1), At(payload, 2))
         IN  IF 3 + str_len > Len(payload) \/ str_len # 8 THEN None
             ELSE IF Slice(payload, 3, 11) # Bytes("_checkbw") THEN None
             ELSE IF 11 + 9 > Len(payload) \/ At(payload, 11) # 0 THEN None
             ELSE [ok |-> TRUE, transaction_id |-> Slice(payload, 12, 20)]

(***************************************************************************)
(* protocol.rs: the response encoders.                                     *)
(***************************************************************************)
\* a property name or string body preceded by the length the source writes
\* for it (`n u16 .to_be_bytes()` then the literal)
Prefixed(n, s) == U16Be(n) \o Bytes(s)

create_connect_response ==
    <<2>> \o Prefixed(7, "_result")
    \o <<0>> \o F64Be(1)
    \o <<3>>
    \o Prefixed(6, "fmsVer") \o <<2>> \o Prefixed(9, "FMS/3,0,1")
    \o Prefixed(12, "capabilities") \o <<0>> \o F64Be(31)
    \o <<0, 0, 9>>
    \o <<3>>
    \o Prefixed(5, "level") \o <<2>> \o Prefixed(6, "status")
    \o Prefixed(4, "code") \o <<2>> \o Prefixed(29, "NetConnection.Connect.Success")
    \o Prefixed(11, "description") \o <<2>> \o Prefixed(15, "Connection succeeded")
    \o <<0, 0, 9>>

create_publish_response(stream_key) ==
    LET desc == Bytes("Started publishing stream ") \o stream_key IN
    <<2>> \o Prefixed(8, "onStatus")
    \o <<0>> \o F64Be(0)
    \o <<5>>
    \o <<3>>
    \o Prefixed(5, "level") \o <<2>> \o Prefixed(6, "status")
    \o Prefixed(4, "code") \o <<2>> \o Prefixed(26, "NetStream.Publish.Start")
    \o Prefixed(11, "description") \o <<2>> \o U16Be(Len(desc)) \o desc
    \o <<0, 0, 9>>

\* a variant that answers with a fixed transaction id
create_createstream_response_Fixed(transaction_id) ==
    <<2>> \o Prefixed(7, "_result")
    \o <<0>> \o F64Be(2)
    \o <<5>>
    \o <<0>> \o F64Be(1)

create_createstream_response(transaction_id) ==
    <<2>> \o Prefixed(7, "_result")
    \o <<0>> \o transaction_id
    \o <<5>>
    \o <<0>> \o F64Be(1)

create_generic_response(command) ==
    <<2>> \o Prefixed(7, "_result")
    \o <<0>> \o F64Be(2)
    \o <<5>>
    \o <<5>>

create_onbwdone_message ==
    <<2>> \o Prefixed(8, "onBWDone")
    \o <<0>> \o F64Be(0)
    \o <<5>>

\* a variant that answers with the transaction id of the generic reply
create_checkbw_response_Fixed(transaction_id) ==
    <<2>> \o Prefixed(7, "_result")
    \o <<0>> \o F64Be(2)
    \o <<5>>
    \o <<0>> \o F64Be(1000000)

create_checkbw_response(transaction_id) ==
    <<2>> \o Prefixed(7, "_result")
    \o <<0>> \o transaction_id
    \o <<5>>
    \o <<0>> \o F64Be(1000000)

create_onbwcheck_message ==
    <<2>> \o Prefixed(9, "onBWCheck")
    \o <<0>> \o F64Be(0)
    \o <<5>>
    \o <<0>> \o F64Be(1000000)

(***************************************************************************)
(* mod.rs: the chunk builders and the senders built on them.               *)
(***************************************************************************)
create_control_message(message_type, payload) ==
    <<2>> \o <<0, 0, 0>> \o U24Be(Len(payload)) \o <<message_type>> \o <<0, 0, 0, 0>>
    \o payload

create_command_chunk(payload) ==
    <<3>> \o <<0, 0, 0>> \o U24Be(Len(payload)) \o <<20>> \o <<0, 0, 0, 0>>
    \o payload

\* a variant that announces the chunk size first
send_initial_control_messages_Reordered ==
    << create_control_message(1, U32Be(OUT_CHUNK_SIZE)),
       create_control_message(5, U32Be(WINDOW_ACK_SIZE)),
       create_control_message(6, U32Be(PEER_BANDWIDTH) \o <<0>>) >>

\* the three write_all calls of send_initial_control_messages
send_initial_control_messages ==
    << create_control_message(5, U32Be(WINDOW_ACK_SIZE)),
       create_control_message(6, U32Be(PEER_BANDWIDTH) \o <<0>>),
       create_control_message(1, U32Be(OUT_CHUNK_SIZE)) >>

\* a variant that sends event type 1 (Stream EOF)
send_stream_begin_Eof(stream_id) ==
    create_control_message(4, U16Be(1) \o U32Be(stream_id))

\* the buffer send_stream_begin writes
send_stream_begin(stream_id) ==
    create_control_message(4, U16Be(0) \o U32Be(stream_id))

(***************************************************************************)
(* perform_handshake, one step per awaited read or write.                  *)
(***************************************************************************)
\* the peer's C1 block for a filling: 4 bytes time, 4 bytes zero, then data
C1Block(seed) ==
    [i \in 1..HANDSHAKE_SIZE |->
        IF i <= 4 THEN (seed * (i + 1)) % 256
        ELSE IF i <= 8 THEN 0
        ELSE (i * (seed + 1) + seed) % 256]

\* the array s1 of perform_handshake
S1Block == [i \in 1..HANDSHAKE_SIZE |-> IF i <= 8 THEN 0 ELSE (i - 1) % 256]

\* stream.read_exact(buf of n bytes): completes when n bytes are queued,
\* fails with UnexpectedEof when the peer has closed with fewer queued.
ReadExactReady(n) == Len(net_in) >= n
ReadExactEof(n) == Len(net_in) < n /\ cstage = "closed"

HsUnchanged ==
    UNCHANGED <<cstage, csize, sent, ctl_at, buffer, buffer_pos, partials, handled, scenario, unitvars, tasks,
                hs_sent, timeouts>>

\* a variant that answers as soon as C0 is read, without waiting for C1
HsReadC0_Early ==
    /\ pc = "readC0"
    /\ ReadExactReady(1)
    /\ hs_io' = Append(hs_io, <<"read", 1>>)
    /\ net_in' = Tail(net_in)
    /\ c0' = <<Head(net_in)>>
    /\ pc' = IF Head(net_in) # RTMP_VERSION THEN "failed" ELSE "writeS0"
    /\ UNCHANGED <<c1, out>>
    /\ HsUnchanged

HsReadC0 ==
    /\ pc = "readC0"
    /\ ReadExactReady(1)
    /\ hs_io' = Append(hs_io, <<"read", 1>>)
    /\ net_in' = Tail(net_in)
    /\ c0' = <<Head(net_in)>>
    /\ pc' = IF Head(net_in) # RTMP_VERSION THEN "failed" ELSE "readC1"
    /\ UNCHANGED <<c1, out>>
    /\ HsUnchanged

\* a variant that answers whatever version byte it read
HsReadC1_AnyVersion ==
    /\ pc \in {"readC1", "failed"}
    /\ hs_io = << <<"read", 1>> >>
    /\ ReadExactReady(HANDSHAKE_SIZE)
    /\ hs_io' = Append(hs_io, <<"read", HANDSHAKE_SIZE>>)
    /\ c1' = SubSeq(net_in, 1, HANDSHAKE_SIZE)
    /\ net_in' = SubSeq(net_in, HANDSHAKE_SIZE + 1, Len(net_in))
    /\ pc' = "writeS0"
    /\ UNCHANGED <<c0, out>>
    /\ HsUnchanged

HsReadC1 ==
    /\ pc = "readC1"
    /\ ReadExactReady(HANDSHAKE_SIZE)
    /\ hs_io' = Append(hs_io, <<"read", HANDSHAKE_SIZE>>)
    /\ c1' = SubSeq(net_in, 1, HANDSHAKE_SIZE)
    /\ net_in' = SubSeq(net_in, HANDSHAKE_SIZE + 1, Len(net_in))
    /\ pc' = "writeS0"
    /\ UNCHANGED <<c0, out>>
    /\ HsUnchanged

HsWriteS0 ==
    /\ pc = "writeS0"
    /\ out' = Append(out, <<RTMP_VERSION>>)
    /\ hs_io' = Append(hs_io, <<"write", 1>>)
    /\ pc' = "writeS1"
    /\ UNCHANGED <<c0, c1, net_in>>
    /\ HsUnchanged

HsWriteS1 ==
    /\ pc = "writeS1"
    /\ out' = Append(out, S1Block)
    /\ hs_io' = Append(hs_io, <<"write", Len(S1Block)>>)
    /\ pc' = "writeS2"
    /\ UNCHANGED <<c0, c1, net_in>>
    /\ HsUnchanged

\* a variant whose S2 carries the server's time 0 in its first four bytes
HsWriteS2_Timed ==
    /\ pc = "writeS2"
    /\ out' = Append(out, [i \in 1..Len(c1) |-> IF i <= 4 THEN 0 ELSE c1[i]])
    /\ hs_io' = Append(hs_io, <<"write", Len(c1)>>)
    /\ pc' = "readC2"
    /\ UNCHANGED <<c0, c1, net_in>>
    /\ HsUnchanged

HsWriteS2 ==
    /\ pc = "writeS2"
    /\ out' = Append(out, c1)
    /\ hs_io' = Append(hs_io, <<"write", Len(c1)>>)
    /\ pc' = "readC2"
    /\ UNCHANGED <<c0, c1, net_in>>
    /\ HsUnchanged

HsReadC2 ==
    /\ pc = "readC2"
    /\ ReadExactReady(HANDSHAKE_SIZE)
    /\ hs_io' = Append(hs_io, <<"read", HANDSHAKE_SIZE>>)
    /\ net_in' = SubSeq(net_in, HANDSHAKE_SIZE + 1, Len(net_in))
    /\ pc' = "sendCtl"
    /\ UNCHANGED <<c0, c1, out>>
    /\ HsUnchanged

\* a variant that takes a C2 cut short by the end of the stream for a C2
HsEof_C2Ignored ==
    /\ \/ pc = "readC0" /\ ReadExactEof(1)
       \/ pc \in {"readC1", "readC2"} /\ ReadExactEof(HANDSHAKE_SIZE)
    /\ net_in' = <<>>
    /\ pc' = IF pc = "readC2" THEN "sendCtl" ELSE "failed"
    /\ UNCHANGED <<hs_io, c0, c1, out>>
    /\ HsUnchanged

\* read_exact meets end-of-stream: `?` returns the error from
\* perform_handshake and from handle_rtmp_connection
HsEof ==
    /\ \/ pc = "readC0" /\ ReadExactEof(1)
       \/ pc \in {"readC1", "readC2"} /\ ReadExactEof(HANDSHAKE_SIZE)
    /\ net_in' = <<>>
    /\ pc' = "failed"
    /\ UNCHANGED <<hs_io, c0, c1, out>>
    /\ HsUnchanged

(***************************************************************************)
(* handle_rtmp_connection after the handshake.                             *)
(***************************************************************************)
\* send_initial_control_messages(&mut socket).await?
SendInitialControl ==
    /\ pc = "sendCtl"
    /\ ctl_at' = Len(out)
    /\ out' = out \o send_initial_control_messages
    /\ pc' = "loop"
    /\ UNCHANGED <<cstage, csize, sent, net_in, hs_io, c0, c1, buffer, buffer_pos,
                   partials, handled, scenario, unitvars, tasks, hs_sent, timeouts>>

\* the MessageType::Command arm: the buffers written for one command payload
HandleCommand(payload) ==
    LET connect_cmd == parse_rtmp_connect(payload)
        createstream_cmd == parse_rtmp_createstream(payload)
        publish_cmd == parse_rtmp_publish(payload)
        command_name == parse_command_name(payload)
        checkbw == parse_checkbw_command(payload)
    IN  IF connect_cmd.ok THEN
            << create_command_chunk(create_connect_response),
               send_stream_begin(0),
               create_command_chunk(create_onbwdone_message) >>
        ELSE IF createstream_cmd.ok THEN
            << create_command_chunk(create_createstream_response(createstream_cmd.transaction_id)) >>
        ELSE IF publish_cmd.ok THEN
            << create_command_chunk(create_publish_response(publish_cmd.stream_key)) >>
        ELSE IF command_name.ok THEN
            IF command_name.name = Bytes("_checkbw") THEN
                IF checkbw.ok THEN
                    << create_command_chunk(create_checkbw_response(checkbw.transaction_id)),
                       create_command_chunk(create_onbwcheck_message) >>
                ELSE << create_command_chunk(create_generic_response(Bytes("_checkbw"))) >>
            ELSE << create_command_chunk(create_generic_response(command_name.name)) >>
        ELSE << >>

\* the `match MessageType::from(header.message_type_id)` of the loop body: the
\* buffers written for one message
HandleMessage(header, payload) ==
    LET kind == MessageTypeFrom(header.message_type_id) IN
    CASE kind = "Command" -> HandleCommand(payload)
      [] kind = "WindowAcknowledgementSize" ->
            IF header.message_length >= 4
            THEN << create_control_message(3, U32Be(0)) >>
            ELSE << >>
      [] OTHER -> << >>

\* what the loop body hands to a media sink for one message: the arms for
\* audio, for video and for every other type only log, and the task holds no
\* sink (no channel, no file, no child process) to hand anything to
ForwardMessage(header, payload) == << >>

\* the `while processed < buffer_pos && message_count < MAX_MESSAGES_PER_READ`
\* loop over buf = buffer[..buffer_pos]; st = [processed, message_count,
\* writes, log], out_len the length of `out` when the loop was entered; a log
\* entry keeps remaining.len() at the dispatch as `avail` and the number of
\* read timeouts before it as `idle`
RECURSIVE ProcessMessages(_, _, _)
ProcessMessages(buf, st, out_len) ==
    IF ~(st.processed < Len(buf) /\ st.message_count < MAX_MESSAGES_PER_READ) THEN st
    ELSE LET remaining == Slice(buf, st.processed, Len(buf))
             header == RtmpHeaderParse(remaining)
             counted == [st EXCEPT !.message_count = @ + 1]
         IN  IF ~header.ok THEN counted
             ELSE LET total_message_size == header.header_size + header.message_length IN
                  IF Len(remaining) < total_message_size THEN counted
                  ELSE LET payload == Slice(remaining, header.header_size, total_message_size)
                           writes == HandleMessage(header, payload)
                       IN  ProcessMessages(buf,
                               [counted EXCEPT
                                   !.processed = @ + total_message_size,
                                   !.writes = @ \o writes,
                                   !.log = Append(@, [header |-> header,
                                                      payload |-> payload,
                                                      avail |-> Len(remaining),
                                                      idle |-> timeouts,
                                                      out_at |-> out_len + Len(st.writes),
                                                      n_out |-> Len(writes)])],
                               out_len)

\* what socket.read(&mut buffer[buffer_pos..]) may return when bytes are queued:
\* all of them, or fewer (a short read): a basic header only, a whole format-0
\* header, a header and one payload byte, a header and 300 bytes behind it
ShortReads == {1, 12, 13, 312}

ReadSizes ==
    LET space == BUFFER_SIZE - buffer_pos
        avail == IF Len(net_in) < space THEN Len(net_in) ELSE space
    IN  {avail} \cup (IF partials < MaxPartial
                      THEN {n \in ShortReads \cup {avail \div 2} : 0 < n /\ n < avail}
                      ELSE {})

\* a variant that starts the move one byte early
CopyWithin_Early(buf, from, to) == SubSeq(buf, from, to - 1)

\* buffer.copy_within(from..to, 0): what buffer[0..to - from) holds afterwards
CopyWithin(buf, from, to) == SubSeq(buf, from + 1, to)

\* the `if processed > 0` block behind the message loop: what
\* buffer[0..buffer_pos) holds afterwards, buf being buffer[..buffer_pos] before
Compact(buf, processed) ==
    IF processed > 0
    THEN (IF processed < Len(buf) THEN CopyWithin(buf, processed, Len(buf)) ELSE <<>>)
    ELSE buf

\* one iteration of `loop` in which the read returns bytes: the read, the
\* message loop and the move of the unprocessed bytes to the buffer's start
ReadAndProcess ==
    /\ pc = "loop"
    /\ Len(net_in) > 0
    /\ buffer_pos < BUFFER_SIZE
    /\ \E bytes_read \in ReadSizes :
         LET buf == buffer \o SubSeq(net_in, 1, bytes_read)
             st == ProcessMessages(buf,
                       [processed |-> 0, message_count |-> 0, writes |-> <<>>, log |-> <<>>],
                       Len(out))
         IN  /\ net_in' = SubSeq(net_in, bytes_read + 1, Len(net_in))
             /\ partials' = IF bytes_read < Len(net_in) THEN partials + 1 ELSE partials
             /\ out' = out \o st.writes
             /\ handled' = handled \o st.log
             /\ buffer' = Compact(buf, st.processed)
             /\ buffer_pos' = IF st.processed > 0
                              THEN (IF st.processed < buffer_pos + bytes_read
                                    THEN buffer_pos + bytes_read - st.processed
                                    ELSE 0)
                              ELSE buffer_pos + bytes_read
    /\ UNCHANGED <<pc, cstage, csize, sent, hs_io, c0, c1, ctl_at, scenario, unitvars,
                   tasks, hs_sent, timeouts>>

\* the read returns Ok(0): the peer has closed and nothing is queued, or the
\* slice buffer[buffer_pos..] is empty
ZeroRead == (Len(net_in) = 0 /\ cstage = "closed") \/ buffer_pos = BUFFER_SIZE

ReadZero ==
    /\ pc = "loop"
    /\ ZeroRead
    /\ pc' = "done"
    /\ UNCHANGED <<cstage, csize, sent, net_in, hs_io, c0, c1, out, ctl_at, buffer,
                   buffer_pos, partials, handled, scenario, unitvars, tasks, hs_sent, timeouts>>

\* a variant that takes the timeout for the end of the connection
ReadTimeout_Fatal ==
    /\ pc = "loop"
    /\ Len(net_in) = 0
    /\ cstage # "closed"
    /\ buffer_pos < BUFFER_SIZE
    /\ timeouts < MaxTimeouts
    /\ timeouts' = timeouts + 1
    /\ pc' = "done"
    /\ UNCHANGED <<cstage, csize, sent, net_in, hs_io, c0, c1, out, ctl_at, buffer,
                   buffer_pos, partials, handled, scenario, unitvars, tasks, hs_sent>>

\* the 5 s timeout elapses with nothing queued: `continue`
ReadTimeout ==
    /\ pc = "loop"
    /\ Len(net_in) = 0
    /\ cstage # "closed"
    /\ buffer_pos < BUFFER_SIZE
    /\ timeouts < MaxTimeouts
    /\ timeouts' = timeouts + 1
    /\ UNCHANGED <<pc, cstage, csize, sent, net_in, hs_io, c0, c1, out, ctl_at, buffer,
                   buffer_pos, partials, handled, scenario, unitvars, tasks, hs_sent>>

(***************************************************************************)
(* The peer.  It follows the protocol's framing (spec 4.1, 4.2, 4.3) but   *)
(* is free in what it sends and when, and may close at any point.          *)
(***************************************************************************)
AmfString(s) == <<2>> \o U16Be(Len(s)) \o s
AmfNumber(n) == <<0>> \o F64Be(n)
AmfNull == <<5>>
AmfProperty(k, v) == U16Be(Len(k)) \o k \o v
AmfObjectEnd == <<0, 0, 9>>

PeerConnect(txn) ==
    AmfString(Bytes("connect")) \o AmfNumber(txn)
    \o <<3>> \o AmfProperty(Bytes("app"), AmfString(Bytes("live"))) \o AmfObjectEnd

PeerCreateStream(txn) == AmfString(Bytes("createStream")) \o AmfNumber(txn) \o AmfNull

PeerPublish(txn, key) ==
    AmfString(Bytes("publish")) \o AmfNumber(txn) \o AmfNull \o AmfString(key)
    \o AmfString(Bytes("live"))

PeerCommand(name, txn, arg) ==
    AmfString(Bytes(name)) \o AmfNumber(txn) \o AmfNull \o AmfString(Bytes(arg))

\* a media payload of n bytes, none of them a chunk basic header of the model
MediaPayload(n) == [i \in 1..n |-> 1 + (i % 100)]

\* a message, the chunk header format (spec 4.2) its first chunk is sent with
\* and its timestamp
PeerMessage(type_id, csid, payload) ==
    [fmt |-> 0, type_id |-> type_id, csid |-> csid, payload |-> payload, ts |-> 0]

WithFormat(m, fmt) == [m EXCEPT !.fmt = fmt]

WithTimestamp(m, ts) == [m EXCEPT !.ts = ts]

CommandMenu ==
    { PeerMessage(20, 3, PeerConnect(1)),
      PeerMessage(20, 3, PeerConnect(2)),
      PeerMessage(20, 3, PeerCreateStream(2)),
      PeerMessage(20, 3, PeerCreateStream(5)),
      PeerMessage(20, 3, PeerPublish(3, Bytes("mykey"))),
      PeerMessage(20, 3, PeerCommand("FCPublish", 4, "key")),
      PeerMessage(9, 6, MediaPayload(300)),
      PeerMessage(1, 2, U32Be(16)) }

\* publish commands whose stream key is empty or holds a path separator
KeyMenu ==
    { PeerMessage(20, 3, PeerPublish(3, << >>)),
      PeerMessage(20, 3, PeerPublish(3, Bytes("a/b"))) }

\* a createStream with a full header and createStreams of the same length
\* whose headers refer to the previous header on chunk-stream 3
HeaderMenu ==
    { PeerMessage(20, 3, PeerCreateStream(2)),
      WithFormat(PeerMessage(20, 3, PeerCreateStream(5)), 1),
      WithFormat(PeerMessage(20, 3, PeerCreateStream(5)), 2),
      WithFormat(PeerMessage(20, 3, PeerCreateStream(5)), 3) }

\* a short audio message on chunk-stream 4
AudioMessage == PeerMessage(8, 4, MediaPayload(10))

\* a video message of three chunks on chunk-stream 6
VideoMessage == PeerMessage(9, 6, MediaPayload(300))

InterleaveMenu == { AudioMessage }

\* a stream key of 4000 bytes: the publish command fits the read buffer once
\* the peer has raised its chunk size, the reply to it exceeds 4096 bytes
LongKey == [i \in 1..4000 |-> 107]

LongKeyMenu ==
    { PeerMessage(1, 2, U32Be(4096)),
      PeerMessage(20, 3, PeerPublish(3, LongKey)) }

\* the peer announces an acknowledgement window of 16 bytes
WindowMenu ==
    { PeerMessage(5, 2, U32Be(16)),
      PeerMessage(20, 3, PeerCreateStream(2)) }

\* a data message (type 18) on chunk-stream 5
DataMessage == PeerMessage(18, 5, AmfString(Bytes("onMetaData")) \o AmfNumber(1))

PeerDeleteStream(txn, stream_id) ==
    AmfString(Bytes("deleteStream")) \o AmfNumber(txn) \o AmfNull \o AmfNumber(stream_id)

\* spec 4.4: a session that gets to Publishing by connect, createStream and
\* publish, then sends a media message or ends the stream, then sends audio;
\* the k-th message of the peer is drawn from the k-th set
PublishScript ==
    << { PeerMessage(20, 3, PeerConnect(1)) },
       { PeerMessage(20, 3, PeerCreateStream(2)) },
       { PeerMessage(20, 3, PeerPublish(3, Bytes("mykey"))) },
       { AudioMessage,
         DataMessage,
         PeerMessage(20, 3, PeerDeleteStream(4, 1)),
         PeerMessage(20, 3, PeerCommand("FCUnpublish", 4, "mykey")) },
       { AudioMessage } >>

\* createStream commands whose timestamp does not fit the 3-byte field
ExtTimeMenu ==
    { WithTimestamp(PeerMessage(20, 3, PeerCreateStream(2)), 16777216),
      WithTimestamp(WithFormat(PeerMessage(20, 3, PeerCreateStream(5)), 1), 16777216) }

\* one message more than the loop dispatches per read, sent in one go
Burst == [k \in 1..(MAX_MESSAGES_PER_READ + 1) |-> AudioMessage]

PeerCheckbw(txn) == AmfString(Bytes("_checkbw")) \o AmfNumber(txn) \o AmfNull

\* bandwidth checks, before and after connect
CheckbwMenu ==
    { PeerMessage(20, 3, PeerConnect(1)),
      PeerMessage(20, 3, PeerCheckbw(3)),
      PeerMessage(20, 3, PeerCheckbw(6)) }

\* a video message of 5000 bytes, sent in one chunk once the peer has raised
\* its chunk size: header and payload exceed the read buffer
LargeMenu ==
    { PeerMessage(1, 2, U32Be(8192)),
      PeerMessage(9, 6, MediaPayload(5000)) }

Scenarios ==
    {"commands", "keys", "headers", "interleaved", "longkey", "window", "publishing",
     "checkbw", "exttime", "burst", "large"}

MenuOf(name) ==
    CASE name = "keys" -> KeyMenu
      [] name = "headers" -> HeaderMenu
      [] name = "interleaved" -> InterleaveMenu
      [] name = "longkey" -> LongKeyMenu
      [] name = "window" -> WindowMenu
      [] name = "publishing" -> {}
      [] name = "checkbw" -> CheckbwMenu
      [] name = "exttime" -> ExtTimeMenu
      [] name = "burst" -> {}
      [] name = "large" -> LargeMenu
      [] OTHER -> CommandMenu

\* spec 4.2: payload split into fragments of at most `size` bytes, each after
\* the first preceded by a format-3 basic header for the chunk-stream id
RECURSIVE PeerFragments(_, _, _)
PeerFragments(payload, size, csid) ==
    IF Len(payload) <= size THEN payload
    ELSE SubSeq(payload, 1, size) \o <<192 + csid>>
         \o PeerFragments(SubSeq(payload, size + 1, Len(payload)), size, csid)

\* spec 4.2: a timestamp that does not fit three bytes is sent as the escape
\* 0xFFFFFF in the 3-byte field and in full in four bytes after the header
TimeField(m) == IF m.ts >= 16777215 THEN <<255, 255, 255>> ELSE U24Be(m.ts)

ExtendedTime(m) == IF m.ts >= 16777215 THEN U32Be(m.ts) ELSE << >>

\* spec 4.2: the header of a message's first chunk (csid in 2..63): format 0
\* carries timestamp, length, type and message-stream id, format 1 omits the
\* message-stream id, format 2 carries the timestamp delta only, format 3
\* nothing
PeerHeader(m) ==
    <<m.fmt * 64 + m.csid>>
    \o (CASE m.fmt = 0 -> TimeField(m) \o U24Be(Len(m.payload)) \o <<m.type_id>>
                          \o <<0, 0, 0, 0>> \o ExtendedTime(m)
          [] m.fmt = 1 -> TimeField(m) \o U24Be(Len(m.payload)) \o <<m.type_id>>
                          \o ExtendedTime(m)
          [] m.fmt = 2 -> TimeField(m) \o ExtendedTime(m)
          [] OTHER -> << >>)

\* a message as its first chunk plus format-3 continuations
PeerChunks(m, size) == PeerHeader(m) \o PeerFragments(m.payload, size, m.csid)

\* spec 4.2: a header of format 1, 2 or 3 refers to the previous header on its
\* chunk-stream id; formats 2 and 3 reuse that header's length and type.  The
\* peer of the model sends a message as long as LongKey in one chunk, that is
\* after it has raised its chunk size.
PeerMaySend(m) ==
    /\ Len(m.payload) >= Len(LongKey) => csize >= Len(m.payload)
    /\ \/ m.fmt = 0
       \/ \E j \in DOMAIN sent :
            /\ sent[j].csid = m.csid
            /\ \A k \in (j + 1)..Len(sent) : sent[k].csid # m.csid
            /\ (m.fmt \in {2, 3} =>
                  /\ Len(sent[j].payload) = Len(m.payload)
                  /\ sent[j].type_id = m.type_id)

C0Values == {2, RTMP_VERSION}

PeerUnchanged ==
    UNCHANGED <<pc, hs_io, c0, c1, out, ctl_at, buffer, buffer_pos, partials, handled, scenario, unitvars, tasks,
                timeouts>>

PeerSendC0 ==
    /\ cstage = "C0"
    /\ \E v \in C0Values :
         /\ net_in' = Append(net_in, v)
         /\ hs_sent' = Append(hs_sent, <<v>>)
    /\ cstage' = "C1"
    /\ UNCHANGED <<csize, sent>>
    /\ PeerUnchanged

PeerSendC1 ==
    /\ cstage = "C1"
    /\ \E seed \in 0..MaxSeed :
         /\ net_in' = net_in \o C1Block(seed)
         /\ hs_sent' = Append(hs_sent, C1Block(seed))
    /\ cstage' = "C2"
    /\ UNCHANGED <<csize, sent>>
    /\ PeerUnchanged

PeerSendC2 ==
    /\ cstage = "C2"
    /\ net_in' = net_in \o S1Block
    /\ hs_sent' = Append(hs_sent, S1Block)
    /\ cstage' = "chunks"
    /\ UNCHANGED <<csize, sent>>
    /\ PeerUnchanged

\* the peer sends the first half of its next handshake block and closes
PeerTruncate ==
    /\ cstage \in {"C1", "C2"}
    /\ net_in' = net_in \o SubSeq(S1Block, 1, HANDSHAKE_SIZE \div 2)
    /\ hs_sent' = Append(hs_sent, SubSeq(S1Block, 1, HANDSHAKE_SIZE \div 2))
    /\ cstage' = "closed"
    /\ UNCHANGED <<csize, sent>>
    /\ PeerUnchanged

PeerSendMessage ==
    /\ cstage = "chunks"
    /\ Len(sent) < MaxMsgs
    /\ \E m \in MenuOf(scenario) :
         /\ PeerMaySend(m)
         /\ sent' = Append(sent, m)
         /\ net_in' = net_in \o PeerChunks(m, csize)
         /\ csize' = IF m.type_id = 1
                     THEN U24FromBe(m.payload[2], m.payload[3], m.payload[4])
                     ELSE csize
    /\ UNCHANGED <<cstage, hs_sent>>
    /\ PeerUnchanged

\* spec 4.2: chunks of different chunk-stream ids may alternate.  The peer
\* sends the first chunk of the video message, then the whole audio message,
\* then the two remaining chunks of the video message; `sent` lists the two
\* in the order in which their last chunks are sent
PeerSendInterleaved ==
    /\ cstage = "chunks"
    /\ scenario = "interleaved"
    /\ csize = 128
    /\ Len(sent) + 2 <= MaxMsgs
    /\ sent' = sent \o <<AudioMessage, VideoMessage>>
    /\ net_in' = net_in
                  \o PeerHeader(VideoMessage) \o SubSeq(VideoMessage.payload, 1, csize)
                  \o PeerChunks(AudioMessage, csize)
                  \o <<192 + VideoMessage.csid>>
                  \o PeerFragments(SubSeq(VideoMessage.payload, csize + 1,
                                           Len(VideoMessage.payload)),
                                    csize, VideoMessage.csid)
    /\ UNCHANGED <<cstage, csize, hs_sent>>
    /\ PeerUnchanged

\* the chunks of the messages of a sequence, one message after the other
RECURSIVE ChunksOf(_, _)
ChunksOf(msgs, size) ==
    IF msgs = << >> THEN << >>
    ELSE PeerChunks(Head(msgs), size) \o ChunksOf(Tail(msgs), size)

\* the peer sends all messages of Burst at once
PeerSendBurst ==
    /\ cstage = "chunks"
    /\ scenario = "burst"
    /\ sent = << >>
    /\ sent' = Burst
    /\ net_in' = net_in \o ChunksOf(Burst, csize)
    /\ UNCHANGED <<cstage, csize, hs_sent>>
    /\ PeerUnchanged

\* the peer sends the next message of PublishScript
PeerSendScripted ==
    /\ cstage = "chunks"
    /\ scenario = "publishing"
    /\ Len(sent) < Len(PublishScript)
    /\ \E m \in PublishScript[Len(sent) + 1] :
         /\ sent' = Append(sent, m)
         /\ net_in' = net_in \o PeerChunks(m, csize)
    /\ UNCHANGED <<cstage, csize, hs_sent>>
    /\ PeerUnchanged

PeerClose ==
    /\ cstage # "closed"
    /\ cstage' = "closed"
    /\ UNCHANGED <<csize, sent, net_in, hs_sent>>
    /\ PeerUnchanged

(***************************************************************************)
(* RtmpServer::start: every accepted socket gets a task of its own running *)
(* handle_rtmp_connection.  Here each task is followed at the grain of its  *)
(* loop iterations, with clients that complete the handshake and send one   *)
(* whole single-chunk message per read.                                    *)
(***************************************************************************)
Conns == {1, 2}

NoTask == [st |-> "none", out |-> << >>, handled |-> << >>]

PairMenu ==
    { PeerMessage(20, 3, PeerCreateStream(2)),
      PeerMessage(20, 3, PeerPublish(3, Bytes("mykey"))),
      PeerMessage(20, 3, PeerPublish(3, Bytes("cam2"))) }

MainUnchanged ==
    UNCHANGED <<pc, cstage, csize, sent, net_in, hs_io, c0, c1, out, ctl_at, buffer,
                buffer_pos, partials, handled, scenario, unitvars, hs_sent, timeouts>>

\* listener.accept() and tokio::spawn: the task does perform_handshake with a
\* client that sends C0 = 3, C1 and C2, then send_initial_control_messages
AcceptConnection ==
    /\ \E c \in Conns :
         /\ tasks[c].st = "none"
         /\ tasks' = [tasks EXCEPT ![c] =
                [st |-> "open",
                 out |-> << <<RTMP_VERSION>>, S1Block, C1Block(0) >>
                         \o send_initial_control_messages,
                 handled |-> << >>]]
    /\ MainUnchanged

\* one iteration of a task's loop: the read returns one whole message, the
\* message loop dispatches it and the buffer is empty again
TaskRead ==
    /\ \E c \in Conns :
         /\ tasks[c].st = "open"
         /\ Len(tasks[c].handled) < MaxMsgs
         /\ \E m \in PairMenu :
              LET st == ProcessMessages(PeerChunks(m, 128),
                            [processed |-> 0, message_count |-> 0, writes |-> <<>>, log |-> <<>>],
                            Len(tasks[c].out))
              IN  tasks' = [tasks EXCEPT ![c].out = @ \o st.writes,
                                         ![c].handled = @ \o st.log]
    /\ MainUnchanged

\* the client closes: the task's read returns 0 and the task ends
TaskEnd ==
    /\ \E c \in Conns :
         /\ tasks[c].st = "open"
         /\ tasks' = [tasks EXCEPT ![c].st = "closed"]
    /\ MainUnchanged

(***************************************************************************)
(* The specification.                                                      *)
(***************************************************************************)
InitCommon ==
    /\ pc = "readC0"
    /\ cstage = "C0"
    /\ csize = 128
    /\ sent = <<>>
    /\ net_in = <<>>
    /\ hs_io = <<>>
    /\ c0 = <<>>
    /\ c1 = <<>>
    /\ out = <<>>
    /\ ctl_at = 0
    /\ buffer = <<>>
    /\ buffer_pos = 0
    /\ partials = 0
    /\ handled = <<>>
    /\ tasks = [c \in Conns |-> NoTask]
    /\ hs_sent = <<>>
    /\ timeouts = 0

\* no decoder under test, no segmenter output
UnitIdle ==
    /\ input = <<>>
    /\ output = <<>>
    /\ playlist_file = <<>>
    /\ playlist_manager = <<>>

Init == InitCommon /\ UnitIdle /\ scenario \in Scenarios

Next ==
    \/ HsReadC0
    \/ HsReadC1
    \/ HsWriteS0
    \/ HsWriteS1
    \/ HsWriteS2
    \/ HsReadC2
    \/ HsEof
    \/ SendInitialControl
    \/ ReadAndProcess
    \/ ReadZero
    \/ ReadTimeout
    \/ PeerSendC0
    \/ PeerSendC1
    \/ PeerSendC2
    \/ PeerTruncate
    \/ PeerSendMessage
    \/ PeerSendInterleaved
    \/ PeerSendScripted
    \/ PeerSendBurst
    \/ PeerClose

Spec == Init /\ [][Next]_vars

\* The steps of the task that runs handle_rtmp_connection.  The runtime polls
\* a task whose awaited read or write can complete, so a step of the task that
\* stays possible is taken; the peer is free to send nothing at all.
ServerNext ==
    \/ HsReadC0
    \/ HsReadC1
    \/ HsWriteS0
    \/ HsWriteS1
    \/ HsWriteS2
    \/ HsReadC2
    \/ HsEof
    \/ SendInitialControl
    \/ ReadAndProcess
    \/ ReadZero
    \/ ReadTimeout

SpecLive == Init /\ [][Next]_vars /\ WF_vars(ServerNext)

\* several connections at once
InitPair == InitCommon /\ UnitIdle /\ scenario = "pair"

NextPair ==
    \/ AcceptConnection
    \/ TaskRead
    \/ TaskEnd

SpecPair == InitPair /\ [][NextPair]_vars

TypeOK ==
    /\ pc \in {"readC0", "readC1", "writeS0", "writeS1", "writeS2", "readC2",
               "sendCtl", "loop", "done", "failed"}
    /\ buffer_pos = Len(buffer)
    /\ buffer_pos <= BUFFER_SIZE
    /\ timeouts \in 0..MaxTimeouts

(***************************************************************************)
(* Reading the wire as a peer does: a chunk as the RTMP chunk format lays  *)
(* it out, and an AMF0 value sequence as the AMF0 format defines it.  These *)
(* are used by the properties only.                                        *)
(***************************************************************************)
\* a format-0 chunk with a one-byte basic header
WireChunk(w) ==
    [format |-> w[1] \div 64,
     csid |-> w[1] % 64,
     length |-> U24FromBe(w[5], w[6], w[7]),
     type_id |-> w[8],
     payload |-> SubSeq(w, 13, Len(w))]

\* a four-byte big-endian unsigned value below 2^31
WireU32(b) == b[1] * 16777216 + b[2] * 65536 + b[3] * 256 + b[4]

AmfBad == [ok |-> FALSE]

\* the AMF0 value at position i of b and the position after it; a string's
\* body is exactly as long as its length prefix says, an object runs to its
\* 00 00 09 end marker
RECURSIVE Amf0Value(_, _)
RECURSIVE Amf0Properties(_, _, _)
Amf0Value(b, i) ==
    IF i > Len(b) THEN AmfBad
    ELSE CASE b[i] = 0 ->
                IF i + 8 > Len(b) THEN AmfBad
                ELSE [ok |-> TRUE, next |-> i + 9,
                      v |-> [t |-> "number", bits |-> SubSeq(b, i + 1, i + 8)]]
           [] b[i] = 1 ->
                IF i + 1 > Len(b) THEN AmfBad
                ELSE [ok |-> TRUE, next |-> i + 2, v |-> [t |-> "boolean", b |-> b[i + 1]]]
           [] b[i] = 2 ->
                IF i + 2 > Len(b) THEN AmfBad
                ELSE IF i + 2 + U16FromBe(b[i + 1], b[i + 2]) > Len(b) THEN AmfBad
                ELSE [ok |-> TRUE, next |-> i + 3 + U16FromBe(b[i + 1], b[i + 2]),
                      v |-> [t |-> "string",
                             s |-> SubSeq(b, i + 3, i + 2 + U16FromBe(b[i + 1], b[i + 2]))]]
           [] b[i] = 3 -> Amf0Properties(b, i + 1, <<>>)
           [] b[i] = 5 -> [ok |-> TRUE, next |-> i + 1, v |-> [t |-> "null"]]
           [] OTHER -> AmfBad

Amf0Properties(b, i, props) ==
    IF i + 2 > Len(b) THEN AmfBad
    ELSE IF b[i] = 0 /\ b[i + 1] = 0 THEN
        IF b[i + 2] = 9
        THEN [ok |-> TRUE, next |-> i + 3, v |-> [t |-> "object", props |-> props]]
        ELSE AmfBad
    ELSE IF i + 1 + U16FromBe(b[i], b[i + 1]) > Len(b) THEN AmfBad
    ELSE LET key == SubSeq(b, i + 2, i + 1 + U16FromBe(b[i], b[i + 1]))
             val == Amf0Value(b, i + 2 + Len(key))
         IN  IF ~val.ok THEN AmfBad
             ELSE Amf0Properties(b, val.next, Append(props, <<key, val.v>>))

\* the whole of b as a sequence of AMF0 values: AmfBad unless b is values
\* end to end with no byte left over
RECURSIVE Amf0From(_, _, _)
Amf0From(b, i, acc) ==
    IF i = Len(b) + 1 THEN [ok |-> TRUE, vals |-> acc]
    ELSE LET val == Amf0Value(b, i)
         IN  IF ~val.ok THEN AmfBad ELSE Amf0From(b, val.next, Append(acc, val.v))

Amf0Sequence(b) == Amf0From(b, 1, <<>>)

\* the first two values of b, a command's name and transaction id, whatever
\* follows them
Amf0Head(b) ==
    LET name == Amf0Value(b, 1) IN
    IF ~name.ok THEN AmfBad
    ELSE LET txn == Amf0Value(b, name.next) IN
         IF ~txn.ok \/ name.v.t # "string" THEN AmfBad
         ELSE IF txn.v.t # "number" THEN AmfBad
         ELSE [ok |-> TRUE, name |-> name.v.s, txn |-> txn.v.bits]

AmfStr(s) == [t |-> "string", s |-> Bytes(s)]
AmfNum(n) == [t |-> "number", bits |-> F64Be(n)]
AmfNil == [t |-> "null"]
AmfObj(props) == [t |-> "object", props |-> props]

\* the buffers written while handled[i] was dispatched
Replies(i) == SubSeq(out, handled[i].out_at + 1, handled[i].out_at + handled[i].n_out)

\* handled[i] is an AMF0 command message that is well formed and named `name`
IsCommand(i, name) ==
    /\ handled[i].header.message_type_id = 20
    /\ Amf0Sequence(handled[i].payload).ok
    /\ Amf0Head(handled[i].payload).ok
    /\ Amf0Head(handled[i].payload).name = Bytes(name)

\* handled[i] is a connect command: name, transaction id, command object
IsConnect(i) ==
    /\ IsCommand(i, "connect")
    /\ Len(Amf0Sequence(handled[i].payload).vals) >= 3
    /\ Amf0Sequence(handled[i].payload).vals[3].t = "object"

\* w is a command message on the wire: an AMF0 command chunk whose length
\* field is the length of its payload
IsCommandChunk(w) ==
    /\ Len(w) >= 12
    /\ WireChunk(w).format = 0
    /\ WireChunk(w).type_id = 20
    /\ WireChunk(w).length = Len(WireChunk(w).payload)

HandshakeDone == pc \in {"sendCtl", "loop", "done"}

(***************************************************************************)
(* C1.  The handshake does its I/O in the order read C0 (1 byte), read C1  *)
(* (1536), write S0 (1), write S1 (1536), write S2 (1536), read C2 (1536): *)
(* at every moment the steps done so far are a prefix of that list, nothing *)
(* is written before the two reads, and the handshake has succeeded only    *)
(* when all six steps are done.                                            *)
(***************************************************************************)
HandshakeOrder ==
    << <<"read", 1>>, <<"read", 1536>>, <<"write", 1>>, <<"write", 1536>>,
       <<"write", 1536>>, <<"read", 1536>> >>

C1_HandshakeOrder ==
    /\ Len(hs_io) <= 6
    /\ hs_io = SubSeq(HandshakeOrder, 1, Len(hs_io))
    /\ (out # <<>> => Len(hs_io) >= 3 /\ Len(c0) = 1 /\ Len(c1) = 1536)
    /\ (~HandshakeDone => Len(out) = Cardinality({i \in DOMAIN hs_io : hs_io[i][1] = "write"}))
    /\ (HandshakeDone => hs_io = HandshakeOrder)

C1_Witness == pc = "sendCtl" /\ Len(hs_io) = 6 /\ Len(out) = 3

(***************************************************************************)
(* C2.  When the C0 byte is not 3 the handshake has failed having read     *)
(* that one byte only: nothing was written, no control message was sent and *)
(* no chunk was processed.                                                 *)
(***************************************************************************)
C2_VersionRejected ==
    (Len(c0) = 1 /\ c0[1] # 3) =>
        /\ pc = "failed"
        /\ hs_io = << <<"read", 1>> >>
        /\ out = <<>>
        /\ handled = <<>>
        /\ buffer_pos = 0

C2_Witness == pc = "failed" /\ c0 = <<2>> /\ Len(net_in) > 0

(***************************************************************************)
(* C3.  Once the handshake has succeeded and the loop is entered, the       *)
(* three buffers written right after the handshake are Window               *)
(* Acknowledgement Size 5000000, Set Peer Bandwidth 5000000 with limit type *)
(* 0, Set Chunk Size 4096, in this order; every reply to an inbound message *)
(* comes after them, and nothing else is written unless a message was       *)
(* processed.                                                              *)
(***************************************************************************)
C3_InitialControl ==
    /\ (pc \in {"readC0", "readC1", "writeS0", "writeS1", "writeS2", "readC2",
                "sendCtl", "failed"} => handled = <<>> /\ Len(out) <= 3)
    /\ (pc \in {"loop", "done"} =>
          /\ ctl_at = 3
          /\ Len(out) >= 6
          /\ WireChunk(out[4]).type_id = 5
          /\ Len(WireChunk(out[4]).payload) = 4
          /\ WireU32(WireChunk(out[4]).payload) = 5000000
          /\ WireChunk(out[5]).type_id = 6
          /\ Len(WireChunk(out[5]).payload) = 5
          /\ WireU32(WireChunk(out[5]).payload) = 5000000
          /\ WireChunk(out[5]).payload[5] = 0
          /\ WireChunk(out[6]).type_id = 1
          /\ Len(WireChunk(out[6]).payload) = 4
          /\ WireU32(WireChunk(out[6]).payload) = 4096
          /\ \A k \in 4..6 : WireChunk(out[k]).length = Len(WireChunk(out[k]).payload)
          /\ \A i \in DOMAIN handled : handled[i].out_at >= 6
          /\ (Len(out) > 6 => \E i \in DOMAIN handled : handled[i].out_at = 6 /\ handled[i].n_out > 0))

C3_Witness ==
    /\ pc = "loop"
    /\ Len(out) > 6
    /\ \E i \in DOMAIN handled : IsConnect(i) /\ handled[i].out_at = 6

(***************************************************************************)
(* C4.  Each connect command is answered by exactly three buffers, written *)
(* one after another: the `_result` command, the user-control message       *)
(* Stream Begin (event type 0) for stream id 0, and the `onBWDone` command; *)
(* the task is then still serving the connection.                          *)
(***************************************************************************)
C4_ConnectReplies ==
    \A i \in DOMAIN handled :
        IsConnect(i) =>
            /\ handled[i].n_out = 3
            /\ IsCommandChunk(Replies(i)[1])
            /\ Amf0Head(WireChunk(Replies(i)[1]).payload).ok
            /\ Amf0Head(WireChunk(Replies(i)[1]).payload).name = Bytes("_result")
            /\ WireChunk(Replies(i)[2]).type_id = 4
            /\ WireChunk(Replies(i)[2]).payload = <<0, 0, 0, 0, 0, 0>>
            /\ IsCommandChunk(Replies(i)[3])
            /\ Amf0Sequence(WireChunk(Replies(i)[3]).payload).ok
            /\ Amf0Sequence(WireChunk(Replies(i)[3]).payload).vals
                   = <<AmfStr("onBWDone"), AmfNum(0), AmfNil>>
            /\ pc \in {"loop", "done"}

C4_Witness ==
    /\ pc = "loop"
    /\ \E i \in DOMAIN handled : IsConnect(i) /\ handled[i].n_out = 3

\* the values of an object, looked up by property name
HasProperty(obj, key, val) ==
    /\ obj.t = "object"
    /\ \E k \in DOMAIN obj.props : obj.props[k] = <<Bytes(key), val>>

(***************************************************************************)
(* C5.  The connect `_result` carries the transaction id of the connect    *)
(* command it answers.                                                     *)
(***************************************************************************)
C5_ConnectTxnEchoed ==
    \A i \in DOMAIN handled :
        IsConnect(i) =>
            /\ handled[i].n_out >= 1
            /\ Amf0Head(WireChunk(Replies(i)[1]).payload).ok
            /\ Amf0Head(WireChunk(Replies(i)[1]).payload).txn
                   = Amf0Head(handled[i].payload).txn

(***************************************************************************)
(* C6.  The connect `_result` payload is a well-formed AMF0 value sequence *)
(* that decodes to the string `_result`, a number, the Properties object    *)
(* {fmsVer: "FMS/3,0,1,123", capabilities: 31} and the Information object   *)
(* {level: "status", code: "NetConnection.Connect.Success", description:    *)
(* "Connection succeeded", objectEncoding: 0}.                              *)
(***************************************************************************)
C6_ConnectResultWellFormed ==
    \A i \in DOMAIN handled :
        IsConnect(i) =>
            /\ handled[i].n_out >= 1
            /\ LET r == Amf0Sequence(WireChunk(Replies(i)[1]).payload) IN
               /\ r.ok
               /\ Len(r.vals) = 4
               /\ r.vals[1] = AmfStr("_result")
               /\ r.vals[2].t = "number"
               /\ HasProperty(r.vals[3], "fmsVer", AmfStr("FMS/3,0,1,123"))
               /\ HasProperty(r.vals[3], "capabilities", AmfNum(31))
               /\ Len(r.vals[3].props) = 2
               /\ HasProperty(r.vals[4], "level", AmfStr("status"))
               /\ HasProperty(r.vals[4], "code", AmfStr("NetConnection.Connect.Success"))
               /\ HasProperty(r.vals[4], "description", AmfStr("Connection succeeded"))
               /\ HasProperty(r.vals[4], "objectEncoding", AmfNum(0))
               /\ Len(r.vals[4].props) = 4

(***************************************************************************)
(* C7.  Each createStream command with transaction id t is answered by     *)
(* exactly one buffer, a command message whose payload is the AMF0 sequence *)
(* `_result`, t, null, 1.0; the task is then still serving the connection.  *)
(***************************************************************************)
C7_CreateStreamReply ==
    \A i \in DOMAIN handled :
        IsCommand(i, "createStream") =>
            /\ handled[i].n_out = 1
            /\ IsCommandChunk(Replies(i)[1])
            /\ WireChunk(Replies(i)[1]).csid = 3
            /\ Amf0Sequence(WireChunk(Replies(i)[1]).payload).ok
            /\ Amf0Sequence(WireChunk(Replies(i)[1]).payload).vals
                   = << AmfStr("_result"),
                        [t |-> "number", bits |-> Amf0Head(handled[i].payload).txn],
                        AmfNil,
                        AmfNum(1) >>
            /\ pc \in {"loop", "done"}

C7_Witness ==
    \E i \in DOMAIN handled :
        /\ IsCommand(i, "createStream")
        /\ Amf0Head(handled[i].payload).txn = F64Be(5)
        /\ handled[i].n_out = 1

(***************************************************************************)
(* C8.  For each publish command with stream key K the reply payload is a  *)
(* well-formed AMF0 value sequence that decodes to `onStatus`, 0, null and  *)
(* the object {level: "status", code: "NetStream.Publish.Start",            *)
(* description: "Started publishing stream " followed by K}.                *)
(***************************************************************************)
C8_PublishReplyWellFormed ==
    \A i \in DOMAIN handled :
        IsCommand(i, "publish") =>
            LET cmd == Amf0Sequence(handled[i].payload).vals IN
            (Len(cmd) >= 4 /\ cmd[3] = AmfNil /\ cmd[4].t = "string") =>
                /\ handled[i].n_out = 1
                /\ LET r == Amf0Sequence(WireChunk(Replies(i)[1]).payload) IN
                   /\ r.ok
                   /\ Len(r.vals) = 4
                   /\ r.vals[1] = AmfStr("onStatus")
                   /\ r.vals[2] = AmfNum(0)
                   /\ r.vals[3] = AmfNil
                   /\ HasProperty(r.vals[4], "level", AmfStr("status"))
                   /\ HasProperty(r.vals[4], "code", AmfStr("NetStream.Publish.Start"))
                   /\ HasProperty(r.vals[4], "description",
                          [t |-> "string",
                           s |-> Bytes("Started publishing stream ") \o cmd[4].s])
                   /\ Len(r.vals[4].props) = 3

(***************************************************************************)
(* C9.  A well-formed command that the server does not recognize, such as  *)
(* FCPublish or releaseStream, with transaction id t is answered by         *)
(* `_result`, t, null, null.                                               *)
(***************************************************************************)
C9_GenericReplyEchoesTxn ==
    \A i \in DOMAIN handled :
        (IsCommand(i, "FCPublish") \/ IsCommand(i, "releaseStream")) =>
            /\ handled[i].n_out = 1
            /\ Amf0Sequence(WireChunk(Replies(i)[1]).payload).ok
            /\ Amf0Sequence(WireChunk(Replies(i)[1]).payload).vals
                   = << AmfStr("_result"),
                        [t |-> "number", bits |-> Amf0Head(handled[i].payload).txn],
                        AmfNil,
                        AmfNil >>

(***************************************************************************)
(* C10.  Every message the peer sends as a format-0 chunk followed by      *)
(* format-3 continuation chunks is delivered as one message of the same     *)
(* type whose payload is the concatenation of its fragments: the messages   *)
(* dispatched so far are, in order, the first messages the peer sent.       *)
(***************************************************************************)
C10_Reassembly ==
    \A i \in DOMAIN handled :
        /\ i <= Len(sent)
        /\ handled[i].header.message_type_id = sent[i].type_id
        /\ handled[i].header.chunk_stream_id = sent[i].csid
        /\ handled[i].payload = sent[i].payload

\* the chunk size the peer fragments sent[i] with: the value of its last Set
\* Chunk Size before sent[i], 128 when there is none
SentChunkSize(i) ==
    LET before == {j \in 1..(i - 1) : sent[j].type_id = 1} IN
    IF before = {} THEN 128
    ELSE LET j == CHOOSE k \in before : \A l \in before : l <= k
         IN  U24FromBe(sent[j].payload[2], sent[j].payload[3], sent[j].payload[4])

\* how many payload bytes of m are among the first n bytes of its chunks
PayloadBytesIn(m, size, n) ==
    LET rest == n - Len(PeerHeader(m))
        got == ((rest \div (size + 1)) * size) + (rest % (size + 1))
    IN  IF rest <= 0 THEN 0
        ELSE IF got > Len(m.payload) THEN Len(m.payload)
        ELSE got

\* the messages dispatched before handled[i] were the peer's, byte for byte, so
\* handled[i] starts where the chunks of sent[i] start
Aligned(i) ==
    /\ i <= Len(sent)
    /\ \A j \in 1..(i - 1) :
         /\ handled[j].payload = sent[j].payload
         /\ handled[j].header.header_size = Len(PeerHeader(sent[j]))

(***************************************************************************)
(* C11.  A message is dispatched only when as many of its payload bytes as *)
(* its header declares are in the buffer: for every dispatched message that *)
(* starts where a message of the peer starts, the bytes that were buffered  *)
(* at the dispatch hold all payload bytes of that message.                  *)
(***************************************************************************)
C11_DispatchedWhenComplete ==
    \A i \in DOMAIN handled :
        Aligned(i) =>
            PayloadBytesIn(sent[i], SentChunkSize(i), handled[i].avail)
                >= Len(sent[i].payload)

\* the byte string pat occurs in b
Contains(b, pat) ==
    \E k \in 1..(Len(b) - Len(pat) + 1) : SubSeq(b, k, k + Len(pat) - 1) = pat

\* some buffer written for handled[i] carries the status code `code`
RepliedWith(i, code) ==
    \E k \in 1..handled[i].n_out : Contains(Replies(i)[k], Bytes(code))

(***************************************************************************)
(* C12.  A publish command that no createStream precedes is answered with  *)
(* NetStream.Publish.Failed and never with NetStream.Publish.Start: Start   *)
(* is sent only to a publish that follows a connect and then a createStream *)
(* on its connection.                                                      *)
(***************************************************************************)
C12_PublishNeedsCreateStream ==
    \A i \in DOMAIN handled :
        /\ (IsCommand(i, "publish") /\ \A j \in 1..(i - 1) : ~IsCommand(j, "createStream"))
              => RepliedWith(i, "NetStream.Publish.Failed")
        /\ RepliedWith(i, "NetStream.Publish.Start")
              => \E j \in 1..(i - 1) : \E k \in (j + 1)..(i - 1) :
                     IsConnect(j) /\ IsCommand(k, "createStream")

\* handled[i] is a well-formed command message with another name than connect
IsOtherCommand(i) ==
    /\ handled[i].header.message_type_id = 20
    /\ Amf0Sequence(handled[i].payload).ok
    /\ Amf0Head(handled[i].payload).ok
    /\ Amf0Head(handled[i].payload).name # Bytes("connect")

(***************************************************************************)
(* C13.  Before a connect has been received, a command that is not connect *)
(* closes the session: no message after it is answered.                    *)
(***************************************************************************)
C13_ClosedBeforeConnect ==
    \A i \in DOMAIN handled :
        (IsOtherCommand(i) /\ \A j \in 1..(i - 1) : ~IsConnect(j))
            => \A k \in (i + 1)..Len(handled) : handled[k].n_out = 0

\* the stream key of a publish command: its fourth value, a string after null
HasStreamKey(i) ==
    /\ IsCommand(i, "publish")
    /\ Len(Amf0Sequence(handled[i].payload).vals) >= 4
    /\ Amf0Sequence(handled[i].payload).vals[3] = AmfNil
    /\ Amf0Sequence(handled[i].payload).vals[4].t = "string"

StreamKey(i) == Amf0Sequence(handled[i].payload).vals[4].s

\* spec 5: a key is valid when non-empty, free of `/` (47) and `\` (92) and at
\* most 255 bytes long
ValidKey(key) ==
    /\ key # << >>
    /\ Len(key) <= 255
    /\ \A k \in DOMAIN key : key[k] # 47 /\ key[k] # 92

(***************************************************************************)
(* C14.  A publish command whose stream key is empty, holds `/` or `\`, or  *)
(* is longer than 255 bytes is answered with NetStream.Publish.BadName and  *)
(* never with NetStream.Publish.Start.                                     *)
(***************************************************************************)
C14_BadKeyRejected ==
    \A i \in DOMAIN handled :
        (HasStreamKey(i) /\ ~ValidKey(StreamKey(i))) =>
            /\ RepliedWith(i, "NetStream.Publish.BadName")
            /\ ~RepliedWith(i, "NetStream.Publish.Start")

\* task c was told that it publishes `key` and is still running
Publishing(c, key) ==
    /\ tasks[c].st = "open"
    /\ \E i \in DOMAIN tasks[c].handled :
         LET cmd == Amf0Sequence(tasks[c].handled[i].payload) IN
         /\ cmd.ok
         /\ Len(cmd.vals) >= 4
         /\ cmd.vals[1] = AmfStr("publish")
         /\ cmd.vals[4] = [t |-> "string", s |-> key]
         /\ tasks[c].handled[i].n_out = 1
         /\ Contains(tasks[c].out[tasks[c].handled[i].out_at + 1],
                     Bytes("NetStream.Publish.Start"))

(***************************************************************************)
(* C15.  At no time are two running sessions both publishing the same      *)
(* stream key: a publish of a key that another running session has been    *)
(* granted is not answered with NetStream.Publish.Start.                   *)
(***************************************************************************)
C15_OnePublisherPerKey ==
    \A c \in Conns : \A d \in Conns \ {c} :
        \A key \in {Bytes("mykey"), Bytes("cam2")} :
            ~(Publishing(c, key) /\ Publishing(d, key))

(***************************************************************************)
(* C16.  After the peer's Set Chunk Size v, a message the peer sends in    *)
(* fragments of at most v bytes is dispatched with the payload the peer     *)
(* sent.  The messages looked at fit one chunk of the default size, so only *)
(* the new chunk size fragments them.                                      *)
(***************************************************************************)
C16_PeerChunkSizeApplied ==
    \A i \in DOMAIN handled :
        (/\ Aligned(i)
         /\ SentChunkSize(i) # 128
         /\ sent[i].fmt = 0
         /\ Len(sent[i].payload) <= 128)
            => /\ handled[i].header.message_type_id = sent[i].type_id
               /\ handled[i].payload = sent[i].payload

(***************************************************************************)
(* C17.  A message whose first chunk has a format-2 or format-3 header is  *)
(* dispatched with the length and the type of the previous header on its    *)
(* chunk-stream id: as many payload bytes are read as the peer sent, and    *)
(* the message is classified by that type.                                 *)
(***************************************************************************)
C17_CachedLengthAndType ==
    \A i \in DOMAIN handled :
        (Aligned(i) /\ sent[i].fmt \in {2, 3}) =>
            /\ handled[i].header.chunk_stream_id = sent[i].csid
            /\ handled[i].header.message_length = Len(sent[i].payload)
            /\ handled[i].header.message_type_id = sent[i].type_id
            /\ handled[i].payload = sent[i].payload

\* the type and payload of the messages of seq that are on chunk-stream c
OnChunkStream(seq, c, Csid(_), Type(_)) ==
    LET on == SelectSeq(seq, LAMBDA m : Csid(m) = c)
    IN  [k \in 1..Len(on) |-> <<Type(on[k]), on[k].payload>>]

HandledOn(c) ==
    OnChunkStream(handled, c, LAMBDA h : h.header.chunk_stream_id,
                  LAMBDA h : h.header.message_type_id)

SentOn(c) == OnChunkStream(sent, c, LAMBDA m : m.csid, LAMBDA m : m.type_id)

(***************************************************************************)
(* C18.  On every chunk-stream id the messages dispatched so far are, in   *)
(* order, the first messages the peer completed on that id, whatever chunks *)
(* of other ids were sent in between.                                      *)
(***************************************************************************)
C18_PerIdFifo ==
    \A c \in {sent[k].csid : k \in DOMAIN sent} :
        /\ Len(HandledOn(c)) <= Len(SentOn(c))
        /\ HandledOn(c) = SubSeq(SentOn(c), 1, Len(HandledOn(c)))

\* the outbound chunk size in force for the k-th buffer written: 128 up to and
\* including the server's Set Chunk Size, the announced size after it
OutChunkSize(k) == IF k <= ctl_at + 3 THEN 128 ELSE OUT_CHUNK_SIZE

\* w is one message chunked at size z: a format-0 chunk, then a format-3
\* header before every further fragment of at most z payload bytes
WellChunked(w, z) ==
    /\ Len(w) >= 12
    /\ WireChunk(w).format = 0
    /\ LET len == WireChunk(w).length
           more == IF len = 0 THEN 0 ELSE (len - 1) \div z
       IN  /\ Len(w) = 12 + len + more
           /\ \A j \in 1..more : w[12 + j * (z + 1)] = 192 + WireChunk(w).csid

(***************************************************************************)
(* C19.  Every message the server writes after the handshake is a format-0 *)
(* chunk followed by format-3 chunks, none with more payload bytes than the *)
(* outbound chunk size: 128 until the server's Set Chunk Size is out, 4096  *)
(* after it.                                                               *)
(***************************************************************************)
C19_OutboundChunked ==
    pc \in {"loop", "done"} =>
        \A k \in (ctl_at + 1)..Len(out) : WellChunked(out[k], OutChunkSize(k))

\* the bytes of the messages handled[1..i]: so many bytes, at the least, had
\* been received after the handshake when handled[i] was dispatched
RECURSIVE ConsumedUpTo(_)
ConsumedUpTo(i) ==
    IF i = 0 THEN 0
    ELSE ConsumedUpTo(i - 1)
         + handled[i].header.header_size + handled[i].header.message_length

\* the dispatched Window Acknowledgement Size messages with a window above 0
WindowsSet ==
    {j \in DOMAIN handled :
        /\ handled[j].header.message_type_id = 5
        /\ handled[j].header.message_length = 4
        /\ WireU32(handled[j].payload) > 0}

\* the Acknowledgement messages (type 3) written so far
AcksOut ==
    {k \in (ctl_at + 1)..Len(out) : Len(out[k]) = 16 /\ WireChunk(out[k]).type_id = 3}

(***************************************************************************)
(* C20.  Once the peer has set the window W and N bytes have been received *)
(* after the handshake, at least N div W Acknowledgement messages have been *)
(* written, and each carries at least the count of the bytes received up to *)
(* the message it was written for.                                         *)
(***************************************************************************)
C20_AckCadence ==
    (pc \in {"loop", "done"} /\ WindowsSet # {}) =>
        LET last == CHOOSE j \in WindowsSet : \A l \in WindowsSet : l <= j
            window == WireU32(handled[last].payload)
        IN  /\ Cardinality(AcksOut) >= ConsumedUpTo(Len(handled)) \div window
            /\ \A i \in DOMAIN handled :
                 \A k \in 1..handled[i].n_out :
                    (handled[i].out_at + k) \in AcksOut =>
                        WireU32(WireChunk(Replies(i)[k]).payload) >= ConsumedUpTo(i)

(***************************************************************************)
(* C23.  Of the three buffers the handshake writes, S0 is the single byte  *)
(* 3, S1 is 1536 bytes of which bytes 4..7 (counted from 0) are zero, and   *)
(* S2 is, byte for byte, the 1536-byte C1 the peer sent.                    *)
(***************************************************************************)
C23_S2EchoesC1 ==
    /\ Len(hs_io) >= 3 => out[1] = <<3>>
    /\ Len(hs_io) >= 4 =>
          /\ Len(out[2]) = 1536
          /\ \A i \in 4..7 : At(out[2], i) = 0
    /\ Len(hs_io) >= 5 =>
          /\ Len(hs_sent) >= 2
          /\ Len(hs_sent[2]) = 1536
          /\ out[3] = hs_sent[2]

\* S2 is out and echoes a C1 whose first bytes are not those of S1
C23_Witness ==
    /\ Len(hs_io) >= 5
    /\ out[3] = hs_sent[2]
    /\ SubSeq(out[3], 1, 8) # SubSeq(out[2], 1, 8)

\* the peer has sent C0, C1 and C2 in full
PeerHandshakeSent ==
    /\ Len(hs_sent) = 3
    /\ Len(hs_sent[1]) = 1
    /\ Len(hs_sent[2]) = HANDSHAKE_SIZE
    /\ Len(hs_sent[3]) = HANDSHAKE_SIZE

\* a step of perform_handshake is possible
HandshakeCanStep ==
    ENABLED (HsReadC0 \/ HsReadC1 \/ HsWriteS0 \/ HsWriteS1 \/ HsWriteS2 \/ HsReadC2 \/ HsEof)

(***************************************************************************)
(* C24.  When the peer has closed without having sent C0, C1 and C2 in     *)
(* full, the handshake does not succeed: the task has failed or is on its    *)
(* way to a read that fails, it never sends the initial control messages     *)
(* and never processes a message, and what it has written is a prefix of     *)
(* S0, S1, S2.                                                             *)
(***************************************************************************)
C24_TruncatedHandshake ==
    (cstage = "closed" /\ ~PeerHandshakeSent) =>
        /\ pc \notin {"sendCtl", "loop", "done"}
        /\ pc = "failed" \/ HandshakeCanStep
        /\ handled = << >>
        /\ buffer_pos = 0
        /\ Len(out) <= 3
        /\ Len(out) >= 1 => out[1] = <<RTMP_VERSION>>
        /\ Len(out) >= 2 => out[2] = S1Block
        /\ Len(out) >= 3 => out[3] = hs_sent[2]

\* the peer closed after half a C2: S0, S1 and S2 are out and the task failed
C24_Witness ==
    /\ cstage = "closed"
    /\ Len(hs_sent) = 3
    /\ Len(hs_sent[3]) < HANDSHAKE_SIZE
    /\ pc = "failed"
    /\ Len(out) = 3

\* spec 4.4: the FLV file header and the FLV tag of a message with timestamp 0
FlvHeader(flags) == Bytes("FLV") \o <<1, flags>> \o U32Be(9) \o U32Be(0)

FlvTag(type_id, payload) ==
    <<type_id>> \o U24Be(Len(payload)) \o <<0, 0, 0>> \o <<0>> \o <<0, 0, 0>>
    \o payload \o U32Be(11 + Len(payload))

IsUnpublish(i) == IsCommand(i, "deleteStream") \/ IsCommand(i, "FCUnpublish")

\* handled[i] arrived in Publishing: after a connect, a createStream and a
\* publish that was granted, with no deleteStream or FCUnpublish since
PublishingAt(i) ==
    \E a \in 1..(i - 1) : \E b \in (a + 1)..(i - 1) : \E j \in (b + 1)..(i - 1) :
        /\ IsConnect(a)
        /\ IsCommand(b, "createStream")
        /\ IsCommand(j, "publish")
        /\ RepliedWith(j, "NetStream.Publish.Start")
        /\ \A k \in (j + 1)..(i - 1) : ~IsUnpublish(k)

IsMedia(i) == handled[i].header.message_type_id \in {8, 9, 18}

\* everything handed to the media sink for handled[1..i]
RECURSIVE Forwarded(_)
Forwarded(i) ==
    IF i = 0 THEN << >>
    ELSE Forwarded(i - 1) \o ForwardMessage(handled[i].header, handled[i].payload)

MediaSink == Forwarded(Len(handled))

\* the FLV tags of the media messages among handled[1..i] that arrived in
\* Publishing
RECURSIVE TagsUpTo(_)
TagsUpTo(i) ==
    IF i = 0 THEN << >>
    ELSE TagsUpTo(i - 1)
         \o (IF IsMedia(i) /\ PublishingAt(i)
             THEN FlvTag(handled[i].header.message_type_id, handled[i].payload)
             ELSE << >>)

(***************************************************************************)
(* C21.  Once a media message (type 8, 9 or 18) has been dispatched in     *)
(* Publishing, what has been handed to the media sink is one FLV file       *)
(* header followed by one FLV tag per such message, each with the message's *)
(* type, payload length and payload, in the order of their dispatch.        *)
(***************************************************************************)
C21_MediaForwarded ==
    (\E i \in DOMAIN handled : IsMedia(i) /\ PublishingAt(i)) =>
        \E flags \in Byte : MediaSink = FlvHeader(flags) \o TagsUpTo(Len(handled))

(***************************************************************************)
(* C22.  A deleteStream or FCUnpublish command dispatched in Publishing    *)
(* closes the session: the task has ended and has dispatched nothing after  *)
(* that command.                                                           *)
(***************************************************************************)
C22_UnpublishCloses ==
    \A i \in DOMAIN handled :
        (IsUnpublish(i) /\ PublishingAt(i)) => (pc = "done" /\ Len(handled) = i)

(***************************************************************************)
(* C25.  Each _checkbw command with transaction id t is answered by two    *)
(* buffers, in this order: the command `_result`, t, null, a number, and    *)
(* the command `onBWCheck`; the task is then still serving the connection.  *)
(***************************************************************************)
C25_CheckbwReplies ==
    \A i \in DOMAIN handled :
        IsCommand(i, "_checkbw") =>
            /\ handled[i].n_out = 2
            /\ IsCommandChunk(Replies(i)[1])
            /\ Amf0Sequence(WireChunk(Replies(i)[1]).payload).ok
            /\ Len(Amf0Sequence(WireChunk(Replies(i)[1]).payload).vals) = 4
            /\ SubSeq(Amf0Sequence(WireChunk(Replies(i)[1]).payload).vals, 1, 3)
                   = << AmfStr("_result"),
                        [t |-> "number", bits |-> Amf0Head(handled[i].payload).txn],
                        AmfNil >>
            /\ Amf0Sequence(WireChunk(Replies(i)[1]).payload).vals[4].t = "number"
            /\ IsCommandChunk(Replies(i)[2])
            /\ Amf0Sequence(WireChunk(Replies(i)[2]).payload).ok
            /\ Amf0Head(WireChunk(Replies(i)[2]).payload).ok
            /\ Amf0Head(WireChunk(Replies(i)[2]).payload).name = Bytes("onBWCheck")
            /\ pc \in {"loop", "done"}

\* a _checkbw with transaction id 6 was answered after a connect
C25_Witness ==
    \E i \in DOMAIN handled :
        /\ IsCommand(i, "_checkbw")
        /\ Amf0Head(handled[i].payload).txn = F64Be(6)
        /\ handled[i].n_out = 2
        /\ \E j \in 1..(i - 1) : IsConnect(j)

(***************************************************************************)
(* C26.  Every chunk the server writes after the handshake is on the       *)
(* chunk-stream id of its class: protocol control (types 1, 2, 3, 5, 6) on  *)
(* id 2, AMF commands (type 20) on id 3, user control (type 4) on id 4.     *)
(***************************************************************************)
C26_OutboundChunkStreams ==
    pc \in {"loop", "done"} =>
        \A k \in (ctl_at + 1)..Len(out) :
            /\ WireChunk(out[k]).type_id \in {1, 2, 3, 5, 6} => WireChunk(out[k]).csid = 2
            /\ WireChunk(out[k]).type_id = 20 => WireChunk(out[k]).csid = 3
            /\ WireChunk(out[k]).type_id = 4 => WireChunk(out[k]).csid = 4

(***************************************************************************)
(* C27.  A read of the loop that times out leaves the task in the loop and  *)
(* changes nothing it holds: the buffer, the buffer position, the bytes      *)
(* queued on the socket, what was written and what was dispatched stay as    *)
(* they were, so that the next read goes on from the same state.            *)
(***************************************************************************)
C27_TimeoutNotFatal ==
    [][timeouts' # timeouts =>
          /\ pc = "loop" /\ pc' = "loop"
          /\ buffer' = buffer
          /\ buffer_pos' = buffer_pos
          /\ net_in' = net_in
          /\ out' = out
          /\ handled' = handled]_vars

\* a message was dispatched and answered after a read had timed out
C27_Witness ==
    /\ timeouts >= 1
    /\ \E i \in DOMAIN handled : handled[i].idle >= 1 /\ handled[i].n_out >= 1

Handshaking == pc \in {"readC0", "readC1", "writeS0", "writeS1", "writeS2", "readC2"}

(***************************************************************************)
(* C28.  No session stays in Handshaking forever: whatever the peer sends   *)
(* or fails to send, the task eventually leaves perform_handshake, by        *)
(* success or by failure.                                                  *)
(***************************************************************************)
C28_HandshakeEnds == <>(~Handshaking)

(***************************************************************************)
(* C29.  When an iteration of the read loop is over, no complete message   *)
(* is left in the buffer: what stays buffered has no whole header yet or     *)
(* fewer bytes than its header and declared length need.                    *)
(***************************************************************************)
C29_NoCompleteMessageLeft ==
    pc \in {"loop", "done"} =>
        (RtmpHeaderParse(buffer).ok =>
            Len(buffer) < RtmpHeaderParse(buffer).header_size
                          + RtmpHeaderParse(buffer).message_length)

(***************************************************************************)
(* C30.  A message whose format-0, 1 or 2 header carries 0xFFFFFF in its   *)
(* timestamp field is dispatched with the timestamp of the four bytes that  *)
(* follow the header; those bytes belong to the header and the payload is   *)
(* the payload the peer sent.                                              *)
(***************************************************************************)
C30_ExtendedTimestamp ==
    \A i \in DOMAIN handled :
        (Aligned(i) /\ sent[i].fmt \in {0, 1, 2} /\ sent[i].ts >= 16777215) =>
            /\ handled[i].header.timestamp = sent[i].ts
            /\ handled[i].header.header_size = Len(PeerHeader(sent[i]))
            /\ handled[i].payload = sent[i].payload

(***************************************************************************)
(* The decoders of protocol.rs called on their own.  The slice a decoder   *)
(* is called with is drawn in the initial state, the call is one step.     *)
(***************************************************************************)
MaxHeaderLen == 15   \* longest slice handed to RtmpHeader::parse

\* the first byte has each format with both escapes, the smallest and the
\* largest direct id; two id bytes follow, then timestamp 1, length 5, type 20,
\* stream 1 and payload
HeaderInputs ==
    LET HeaderLows == {0, 1, 2, 63}
        HeaderIdBytes == {<<0, 0>>, <<255, 0>>, <<1, 2>>, <<255, 255>>}
        HeaderRest == <<0, 0, 1, 0, 0, 5, 20, 1, 0, 0, 0, 2, 0, 7>>
    IN  { SubSeq(<<format * 64 + low>> \o ids \o HeaderRest, 1, n) :
              format \in 0..3, low \in HeaderLows, ids \in HeaderIdBytes, n \in 0..MaxHeaderLen }

RtmpUnchanged ==
    UNCHANGED <<pc, cstage, csize, sent, net_in, hs_io, c0, c1, out, ctl_at, buffer,
                buffer_pos, partials, handled, scenario, tasks, hs_sent, timeouts>>

\* RtmpHeader::parse(&input)
ApplyHeaderParse ==
    /\ scenario = "header"
    /\ output = <<>>
    /\ output' = <<RtmpHeaderParse(input)>>
    /\ UNCHANGED <<input, playlist_file, playlist_manager>>
    /\ RtmpUnchanged

MaxProps == 2        \* properties in the command object of a connect

AppProp == AmfProperty(Bytes("app"), AmfString(Bytes("live")))
FlashVerProp == AmfProperty(Bytes("flashVer"), AmfString(Bytes("FMLE/3.0")))
TcUrlProp == AmfProperty(Bytes("tcUrl"), AmfString(Bytes("rtmp://host/live")))

\* the three strings and a number, a boolean, a null, a nested object and an
\* ECMA array
ConnectProps ==
    LET inner == AmfProperty(Bytes("k"), AmfString(Bytes("v")))
    IN  {AppProp, FlashVerProp, TcUrlProp,
         AmfProperty(Bytes("capabilities"), AmfNumber(1)),
         AmfProperty(Bytes("fpad"), <<1, 0>>),
         AmfProperty(Bytes("pageUrl"), AmfNull),
         AmfProperty(Bytes("extra"), <<3>> \o inner \o AmfObjectEnd),
         AmfProperty(Bytes("meta"), <<8>> \o U32Be(1) \o inner \o AmfObjectEnd)}

ConnectPropLists == UNION { [1..n -> ConnectProps] : n \in 0..MaxProps }

RECURSIVE Concat(_)
Concat(ss) == IF ss = <<>> THEN <<>> ELSE Head(ss) \o Concat(Tail(ss))

\* "connect", transaction 1, the command object with the properties in order
ConnectPayload(props) ==
    AmfString(Bytes("connect")) \o AmfNumber(1) \o <<3>> \o Concat(props) \o AmfObjectEnd

ConnectInputs == { ConnectPayload(props) : props \in ConnectPropLists }

\* parse_rtmp_connect(&input)
ApplyConnectParse ==
    /\ scenario = "connect"
    /\ output = <<>>
    /\ output' = <<parse_rtmp_connect(input)>>
    /\ UNCHANGED <<input, playlist_file, playlist_manager>>
    /\ RtmpUnchanged

MaxUnits == 3        \* messages and fragments in a buffer handed to the message loop
MaxRun == 12         \* longest run of one-byte messages handed to the message loop

\* what a buffer is put together from: a format-3 basic header (a message of
\* no payload), a format-2 header, a format-0 audio message of two bytes, the
\* same with a byte missing, and the first byte of a format-0 header
LoopUnits ==
    { <<195>>,
      <<131, 0, 0, 1>>,
      <<4, 0, 0, 0, 0, 0, 2, 8, 1, 0, 0, 0, 7, 7>>,
      <<4, 0, 0, 0, 0, 0, 2, 8, 1, 0, 0, 0, 7>>,
      <<3>> }

LoopInputs ==
    { Concat(units) : units \in UNION { [1..n -> LoopUnits] : n \in 0..MaxUnits } }
    \cup { [i \in 1..n |-> 195] : n \in 0..MaxRun }

\* the message loop of one pass over buffer[..buffer_pos] = input
ApplyMessageLoop ==
    /\ scenario = "messages"
    /\ output = <<>>
    /\ output' = <<ProcessMessages(input,
                       [processed |-> 0, message_count |-> 0, writes |-> <<>>, log |-> <<>>],
                       0)>>
    /\ UNCHANGED <<input, playlist_file, playlist_manager>>
    /\ RtmpUnchanged

InitParse ==
    /\ InitCommon
    /\ output = <<>>
    /\ playlist_file = <<>>
    /\ playlist_manager = <<>>
    /\ \/ scenario = "header" /\ input \in HeaderInputs
       \/ scenario = "connect" /\ input \in ConnectInputs
       \/ scenario = "messages" /\ input \in LoopInputs

NextParse ==
    \/ ApplyHeaderParse
    \/ ApplyConnectParse
    \/ ApplyMessageLoop

SpecParse == InitParse /\ [][NextParse]_vars

(***************************************************************************)
(* C31: RtmpHeader::parse takes the format from the top two bits of the    *)
(* first byte and the chunk stream id from its low six bits, except that 0 *)
(* selects the next byte plus 64 and 1 the next two bytes, least           *)
(* significant first, plus 64; the ids lie in 2..65599; the header takes   *)
(* the basic header's 1, 2 or 3 bytes plus 11, 7, 3 or 0 bytes for the     *)
(* formats 0 to 3; there is no header whenever the slice is shorter.       *)
(***************************************************************************)
C31_BasicHeader ==
    (scenario = "header" /\ output # <<>>) =>
        LET h == output[1]
            low == input[1] % 64
            format == input[1] \div 64
            basic == IF low = 0 THEN 2 ELSE IF low = 1 THEN 3 ELSE 1
            rest == CASE format = 0 -> 11 [] format = 1 -> 7 [] format = 2 -> 3 [] format = 3 -> 0
        IN  IF Len(input) = 0 \/ Len(input) < basic + rest
            THEN ~h.ok
            ELSE /\ h.ok
                 /\ h.format = format
                 /\ h.chunk_stream_id =
                        (IF low = 0 THEN input[2] + 64
                         ELSE IF low = 1 THEN input[2] + (256 * input[3]) + 64
                         ELSE low)
                 /\ h.chunk_stream_id \in 2..65599
                 /\ h.header_size = basic + rest

\* a three-byte basic header whose id bytes are 1 and 2 was parsed
C31_Witness ==
    /\ scenario = "header"
    /\ output # <<>>
    /\ output[1].ok
    /\ input[1] % 64 = 1
    /\ output[1].chunk_stream_id = 577
    /\ output[1].header_size = 14

(***************************************************************************)
(* C32: the connect decoder extracts app, flashVer and tcUrl wherever they *)
(* stand among the properties of the command object: a property of another *)
(* AMF0 kind before them is skipped and does not stop the extraction.       *)
(***************************************************************************)
C32_SkipsByKind ==
    (scenario = "connect" /\ output # <<>>) =>
        \A props \in ConnectPropLists :
            input = ConnectPayload(props) =>
                /\ output[1].ok
                /\ (\E i \in DOMAIN props : props[i] = AppProp)
                       => output[1].app = Bytes("live")
                /\ (\E i \in DOMAIN props : props[i] = FlashVerProp)
                       => output[1].flash_ver = Bytes("FMLE/3.0")
                /\ (\E i \in DOMAIN props : props[i] = TcUrlProp)
                       => output[1].tc_url = Bytes("rtmp://host/live")

(***************************************************************************)
(* C33: the read loop ends the session as "client disconnected" only when  *)
(* the peer has closed the socket: whenever a read is issued the buffer    *)
(* has free space (buffer_pos < 4096), so a read of zero bytes is never    *)
(* caused by a full buffer, also when a message's header and payload       *)
(* exceed 4096 bytes.                                                      *)
(***************************************************************************)
C33_ReadHasSpace ==
    /\ pc = "loop" => buffer_pos < BUFFER_SIZE
    /\ pc = "done" => cstage = "closed"

(***************************************************************************)
(* C34: after every read and processing pass 0 <= processed <= buffer_pos  *)
(* <= 4096, and after the compaction buffer[0..buffer_pos) holds exactly   *)
(* the bytes received and not yet processed, in the order of arrival: no   *)
(* byte is lost, duplicated or reordered.                                  *)
(***************************************************************************)
RECURSIVE C34_Consumed(_)
C34_Consumed(log) ==
    IF log = <<>> THEN 0
    ELSE Head(log).header.header_size + Head(log).header.message_length
         + C34_Consumed(Tail(log))

C34_BufferKeepsUnprocessed ==
    [][(pc = "loop" /\ Len(net_in') < Len(net_in)) =>
          LET bytes_read == Len(net_in) - Len(net_in')
              received == buffer \o SubSeq(net_in, 1, bytes_read)
              processed == C34_Consumed(SubSeq(handled', Len(handled) + 1, Len(handled')))
          IN  /\ 0 <= processed
              /\ processed <= Len(received)
              /\ Len(received) <= BUFFER_SIZE
              /\ buffer_pos' = Len(received) - processed
              /\ buffer_pos' = Len(buffer')
              /\ buffer' = SubSeq(received, processed + 1, Len(received))]_vars

\* the last message dispatched was followed by bytes that stayed in the buffer
C34_Witness ==
    /\ pc = "loop"
    /\ handled # <<>>
    /\ LET e == handled[Len(handled)]
           size == e.header.header_size + e.header.message_length
       IN  /\ e.avail > size
           /\ buffer_pos = e.avail - size
           /\ buffer_pos > 0

(***************************************************************************)
(* C35: every iteration of the message loop of one read either leaves the  *)
(* loop or advances processed by at least one byte, so the loop ends after *)
(* at most buffer_pos iterations, whatever the cap of 10 messages.         *)
(***************************************************************************)
C35_LoopAdvances ==
    (scenario = "messages" /\ output # <<>>) =>
        LET st == output[1] IN
        /\ \A i \in DOMAIN st.log :
               st.log[i].header.header_size + st.log[i].header.message_length >= 1
        /\ st.processed >= Len(st.log)
        /\ st.processed <= Len(input)
        /\ st.message_count <= Len(st.log) + 1
        /\ st.message_count <= Len(input)

\* three messages of one byte each took three iterations
C35_Witness ==
    /\ scenario = "messages"
    /\ output # <<>>
    /\ Len(input) = 3
    /\ output[1].message_count = 3
    /\ output[1].processed = 3

(***************************************************************************)
(* hls/playlist.rs: the PlaylistManager.  A text is its bytes, a file its  *)
(* lines (content.lines()), a duration a whole number of microseconds: the *)
(* segmenter writes durations with six decimals.                            *)
(***************************************************************************)
MaxFirst == 2        \* the number of the first segment the segmenter lists: 0..MaxFirst
MaxListed == 2       \* segments the segmenter lists in its playlist
MaxSequence == 6     \* update() is called while sequence_number is below this

\* config.segment_duration, in seconds
SegmentDuration == 4

StartsWith(line, prefix) ==
    Len(line) >= Len(prefix) /\ SubSeq(line, 1, Len(prefix)) = prefix

EndsWith(line, suffix) ==
    Len(line) >= Len(suffix)
    /\ SubSeq(line, Len(line) - Len(suffix) + 1, Len(line)) = suffix

\* the text before the first byte ch (str::split(ch).next()) and the text
\* behind it
BeforeFirst(text, ch) ==
    IF \E i \in DOMAIN text : text[i] = ch
    THEN SubSeq(text, 1, (CHOOSE i \in DOMAIN text :
                              text[i] = ch /\ \A j \in 1..(i - 1) : text[j] # ch) - 1)
    ELSE text

AfterFirst(text, ch) == SubSeq(text, Len(BeforeFirst(text, ch)) + 2, Len(text))

AllDigits(text) == \A i \in DOMAIN text : text[i] \in 48..57

RECURSIVE DecimalValue(_)
DecimalValue(text) ==
    IF text = <<>> THEN 0
    ELSE DecimalValue(SubSeq(text, 1, Len(text) - 1)) * 10 + (text[Len(text)] - 48)

\* format!("{}", n) for an unsigned n
RECURSIVE DecimalText(_)
DecimalText(n) ==
    IF n < 10 THEN <<48 + n>> ELSE DecimalText(n \div 10) \o <<48 + (n % 10)>>

\* str::parse::<u32>(): decimal digits behind an optional plus sign; the texts
\* of the model have at most nine digits, so none exceeds u32::MAX
ParseU32(text) ==
    LET digits == IF text # <<>> /\ text[1] = 43 THEN Tail(text) ELSE text
    IN  IF digits = <<>> \/ ~AllDigits(digits) \/ Len(digits) > 9 THEN None
        ELSE [ok |-> TRUE, value |-> DecimalValue(digits)]

\* str::parse::<f64>() on the decimal texts of the model, digits with an
\* optional fraction of up to six digits, in microseconds; any other text of
\* the model is no number
ParseF64(text) ==
    LET whole == BeforeFirst(text, 46)
        fraction == AfterFirst(text, 46)
    IN  IF (whole = <<>> /\ fraction = <<>>) \/ ~AllDigits(whole) \/ ~AllDigits(fraction)
           \/ Len(whole) > 3 \/ Len(fraction) > 6
        THEN None
        ELSE [ok |-> TRUE,
              value |-> DecimalValue(whole) * 1000000
                        + DecimalValue(fraction \o [i \in 1..(6 - Len(fraction)) |-> 48])]

\* format!("{:.3}", duration): three decimals, rounded
FormatDuration(duration) ==
    LET millis == (duration + 500) \div 1000
        frac == millis % 1000
    IN  DecimalText(millis \div 1000) \o <<46>>
        \o <<48 + (frac \div 100), 48 + ((frac \div 10) % 10), 48 + (frac % 10)>>

\* PlaylistManager::new
NewPlaylistManager ==
    [segments |-> <<>>, sequence_number |-> 0, target_duration |-> 10]

\* the `for line in lines.iter()` loop of parse_ffmpeg_playlist from line i on;
\* acc = [target_duration, new_segments, current_duration, sequence]
RECURSIVE ParseLines(_, _, _)
ParseLines(lines, i, acc) ==
    IF i > Len(lines) THEN acc
    ELSE LET line == lines[i] IN
         IF StartsWith(line, Bytes("#EXT-X-TARGETDURATION:"))
         THEN LET duration == ParseU32(BeforeFirst(AfterFirst(line, 58), 58))
              IN  ParseLines(lines, i + 1,
                      IF duration.ok THEN [acc EXCEPT !.target_duration = duration.value]
                      ELSE acc)
         ELSE IF StartsWith(line, Bytes("#EXTINF:"))
         THEN LET duration_str == SubSeq(line, Len(Bytes("#EXTINF:")) + 1, Len(line))
                  parsed == ParseF64(BeforeFirst(duration_str, 44))
              IN  ParseLines(lines, i + 1,
                      [acc EXCEPT !.current_duration =
                           IF parsed.ok THEN parsed.value ELSE SegmentDuration * 1000000])
         ELSE IF EndsWith(line, Bytes(".ts")) /\ ~StartsWith(line, Bytes("#"))
         THEN ParseLines(lines, i + 1,
                  [acc EXCEPT
                      !.new_segments = Append(@, [filename |-> line,
                                                  duration |-> acc.current_duration,
                                                  sequence |-> acc.sequence]),
                      !.sequence = @ + 1,
                      !.current_duration = 0])
         ELSE ParseLines(lines, i + 1, acc)

\* PlaylistManager::parse_ffmpeg_playlist on the lines of the file
parse_ffmpeg_playlist(manager, lines) ==
    LET acc == ParseLines(lines, 1,
                   [target_duration |-> manager.target_duration,
                    new_segments |-> <<>>,
                    current_duration |-> 0,
                    sequence |-> manager.sequence_number])
    IN  [segments |-> acc.new_segments,
         sequence_number |-> IF acc.sequence > manager.sequence_number
                             THEN acc.sequence
                             ELSE manager.sequence_number,
         target_duration |-> acc.target_duration]

\* PlaylistManager::update
update(manager, file) ==
    IF ~file.exists THEN manager
    ELSE parse_ffmpeg_playlist(manager, file.lines)

\* PlaylistManager::generate_empty_playlist, as lines
generate_empty_playlist(manager) ==
    << Bytes("#EXTM3U"),
       Bytes("#EXT-X-VERSION:3"),
       Bytes("#EXT-X-TARGETDURATION:") \o DecimalText(manager.target_duration),
       Bytes("#EXT-X-MEDIA-SEQUENCE:0") >>

\* PlaylistManager::get_content, as lines
get_content(manager) ==
    IF manager.segments = <<>> THEN generate_empty_playlist(manager)
    ELSE << Bytes("#EXTM3U"),
            Bytes("#EXT-X-VERSION:3"),
            Bytes("#EXT-X-TARGETDURATION:") \o DecimalText(manager.target_duration),
            Bytes("#EXT-X-MEDIA-SEQUENCE:") \o DecimalText(manager.segments[1].sequence) >>
         \o Concat([i \in DOMAIN manager.segments |->
                        << Bytes("#EXTINF:") \o FormatDuration(manager.segments[i].duration)
                               \o Bytes(","),
                           manager.segments[i].filename >>])

\* the playlist the segmenter writes when it lists `count` segments from
\* number `first` on: segment_%03d.ts, four seconds each
SegmenterPlaylist(first, count) ==
    [exists |-> TRUE,
     first |-> first,
     count |-> count,
     lines |->
        << Bytes("#EXTM3U"),
           Bytes("#EXT-X-VERSION:3"),
           Bytes("#EXT-X-TARGETDURATION:4"),
           Bytes("#EXT-X-MEDIA-SEQUENCE:") \o DecimalText(first) >>
        \o Concat([k \in 1..count |->
                      << Bytes("#EXTINF:4.000000,"),
                         Bytes("segment_00") \o DecimalText(first + k - 1) \o Bytes(".ts") >>])]

NoPlaylist == [exists |-> FALSE, first |-> 0, count |-> 0, lines |-> <<>>]

\* the segmenter writes or rewrites playlist.m3u8: segments are added at the
\* end and dropped from the front
SegmenterWrite ==
    /\ scenario = "hls"
    /\ \E first \in 0..MaxFirst, count \in 1..MaxListed :
         /\ first >= playlist_file.first
         /\ first + count >= playlist_file.first + playlist_file.count
         /\ playlist_file' = SegmenterPlaylist(first, count)
         /\ playlist_file' # playlist_file
    /\ UNCHANGED <<input, output, playlist_manager>>
    /\ RtmpUnchanged

\* one tick of playlist_update_loop: playlist_manager.update(); input keeps
\* the file the manager has read last
UpdatePlaylist ==
    /\ scenario = "hls"
    /\ playlist_manager.sequence_number < MaxSequence
    /\ playlist_manager' = update(playlist_manager, playlist_file)
    /\ input' = playlist_file
    /\ UNCHANGED <<output, playlist_file>>
    /\ RtmpUnchanged

\* get_playlist_content: output keeps the playlist handed out last
ServePlaylist ==
    /\ scenario = "hls"
    /\ output' = <<get_content(playlist_manager)>>
    /\ UNCHANGED <<input, playlist_file, playlist_manager>>
    /\ RtmpUnchanged

InitHls ==
    /\ InitCommon
    /\ scenario = "hls"
    /\ input = NoPlaylist
    /\ output = <<>>
    /\ playlist_file = NoPlaylist
    /\ playlist_manager = NewPlaylistManager

NextHls ==
    \/ SegmenterWrite
    \/ UpdatePlaylist
    \/ ServePlaylist

SpecHls == InitHls /\ [][NextHls]_vars

(***************************************************************************)
(* C36: PlaylistManager::update is idempotent on an unchanged segmenter    *)
(* playlist: once the manager has read the file, reading the same file     *)
(* again leaves get_content as it is, and the EXT-X-MEDIA-SEQUENCE it      *)
(* publishes is the sequence number of the first listed segment and stays  *)
(* the same while the file stays the same.                                  *)
(***************************************************************************)
C36_UpdateIdempotent ==
    [][(scenario = "hls" /\ input = playlist_file /\ playlist_file' = playlist_file) =>
          /\ get_content(playlist_manager') = get_content(playlist_manager)
          /\ playlist_manager'.segments # <<>> =>
                get_content(playlist_manager')[4] =
                    Bytes("#EXT-X-MEDIA-SEQUENCE:")
                    \o DecimalText(playlist_manager'.segments[1].sequence)]_vars

====
